---- MODULE Spec2Model ----
(***************************************************************************)
(* Model of the preview pipeline execution engine                          *)
(* (haystack/preview/pipeline.py: Pipeline.arun, Pipeline._arun_component). *)
(*                                                                         *)
(* A Pipeline object owns the component graph; the per-node visit counters *)
(* live on the graph (self.graph.nodes[name]["visits"]) and the debug      *)
(* trace lives on the object (self.debug), so both are shared by every run *)
(* of the same Pipeline.  inputs_buffer, pipeline_output and step are      *)
(* locals of one call of arun.  Calls interleave only where a component's  *)
(* coroutine suspends (the await at line 113): `active` is the run that    *)
(* currently holds the event loop, 0 when the loop is free.                *)
(***************************************************************************)
EXTENDS Integers, Sequences, FiniteSets, TLC

\* ------------------------------------------------------------------ bounds
MaxLoopsAllowed == 3
LoopTurns == 3
MaxSteps == 12
NumRuns == 2

Runs == 1..NumRuns

\* ------------------------------------------------------------- value space
\* A field value is a positive number.  Absent marks a key that is not in an
\* input/output mapping; NoneValue is a field the caller passed as None.
Absent == 0
NoneValue == -3
\* What `instance.run(**inputs)` evaluates to when the coroutine function is
\* called without await: a coroutine object, not a mapping.
CoroutineValue == -1
\* Marks a node name that is not a key of pipeline_output.
MissingValue == -2

InSockets == {"in", "y", "opt"}
OutSockets == {"out", "alt"}

EmptyInputs == [s \in InSockets |-> Absent]
Keys(inputs) == {s \in InSockets : inputs[s] # Absent}
CoroutineObject == [s \in OutSockets |-> CoroutineValue]
MissingOutput == [s \in OutSockets |-> MissingValue]

Max(S) == CHOOSE m \in S : \A k \in S : k <= m

\* ------------------------------------------------------------------ graphs
Nodes == {"A", "B", "C", "R", "X", "Y", "Y2", "L", "T", "S"}
GraphNames == {"linear", "merge", "twomerge", "branch", "selfloop", "loopout", "source"}

Edge(f, fs, t, ts) == [from |-> f, from_socket |-> fs, to |-> t, to_socket |-> ts]

\* The edge list of each pipeline, in the order the edges were connected.
Edges(g) ==
    CASE g = "linear"   -> << Edge("A", "out", "B", "in"), Edge("B", "out", "C", "in") >>
      [] g = "merge"    -> << Edge("A", "out", "C", "in"), Edge("B", "out", "C", "y") >>
      [] g = "twomerge" -> << Edge("A", "out", "C", "in"), Edge("B", "out", "C", "y"),
                              Edge("A", "out", "T", "in"), Edge("B", "out", "T", "y") >>
      [] g = "branch"   -> << Edge("R", "out", "X", "in"), Edge("R", "alt", "Y", "in"),
                              Edge("Y", "out", "Y2", "in") >>
      [] g = "selfloop" -> << Edge("L", "alt", "L", "in") >>
      [] g = "loopout"  -> << Edge("L", "out", "T", "in"), Edge("L", "alt", "L", "in") >>
      [] g = "source"   -> << Edge("S", "out", "C", "in") >>

GraphNodes(g) ==
    CASE g = "linear"   -> {"A", "B", "C"}
      [] g = "merge"    -> {"A", "B", "C"}
      [] g = "twomerge" -> {"A", "B", "C", "T"}
      [] g = "branch"   -> {"R", "X", "Y", "Y2"}
      [] g = "selfloop" -> {"L"}
      [] g = "loopout"  -> {"L", "T"}
      [] g = "source"   -> {"S", "C"}

\* Input sockets without a default value; S, the head of "source", has none.
MandatorySockets(g, n) ==
    IF (g = "merge" /\ n = "C") \/ (g = "twomerge" /\ n \in {"C", "T"}) THEN {"in", "y"}
    ELSE IF n = "S" THEN {}
    ELSE {"in"}

\* self.graph.out_edges(name), in connection order
out_edges(g, n) == SelectSeq(Edges(g), LAMBDA e : e.from = n)
in_edges(g, n) == {Edges(g)[i] : i \in {j \in DOMAIN Edges(g) : Edges(g)[j].to = n}}

\* ------------------------------------------------------------ capabilities
\* The component instances are stubs whose output is a function of their
\* inputs: every produced field carries 1 + the largest input value.
\*   R  routes: field "out" when its input is 1, field "alt" otherwise.
\*   L  in "selfloop" always feeds itself; in "loopout" it emits "out" on
\*      every turn and "alt" (back to itself) for LoopTurns turns.
Produced(inputs) == Max({inputs[s] : s \in InSockets}) + 1

Capability(g, n, inputs) ==
    LET w == Produced(inputs) IN
    CASE n = "R" -> IF inputs["in"] = 1 THEN [out |-> w, alt |-> Absent]
                                        ELSE [out |-> Absent, alt |-> w]
      [] n = "L" /\ g = "selfloop" -> [out |-> Absent, alt |-> w]
      [] n = "L" /\ g = "loopout"  -> [out |-> w, alt |-> IF inputs["in"] < LoopTurns THEN w ELSE Absent]
      [] OTHER -> [out |-> w, alt |-> Absent]


\* --------------------------------------------------- OrderedDict primitives
\* inputs_buffer is an OrderedDict: a sequence of (name, inputs) items with
\* distinct names, oldest insertion first.
Item(n, inputs) == [name |-> n, inputs |-> inputs]
BufferNames(buf) == {buf[i].name : i \in DOMAIN buf}
\* Variant that puts the item at the head.
SetItemAtHead(buf, n, inputs) == << Item(n, inputs) >> \o buf
\* inputs_buffer[name] = inputs: in place when the key exists, else at the tail
SetItem(buf, n, inputs) ==
    IF n \in BufferNames(buf)
    THEN [i \in DOMAIN buf |-> IF buf[i].name = n THEN Item(n, inputs) ELSE buf[i]]
    ELSE Append(buf, Item(n, inputs))
\* inputs_buffer[name][socket] = value
SetField(buf, n, socket, value) ==
    [i \in DOMAIN buf |->
        IF buf[i].name = n
        THEN Item(n, [buf[i].inputs EXCEPT ![socket] = value])
        ELSE buf[i]]

Count(seq, n) == Cardinality({i \in DOMAIN seq : seq[i] = n})

\* ------------------------------------------- inherited scheduler operations
\* Pipeline.arun calls these methods of the base class; the base class is not
\* part of the sources, so they follow sections 4.2 and 4.4 of the
\* specification.

\* step 1: every node's visit counter back to zero
_clear_visits_count == [n \in Nodes |-> 0]

\* step 2b: the visit counter has reached the configured maximum
_check_max_loops(vis, name) == vis[name] >= MaxLoopsAllowed

\* step 2c: run when every mandatory input is there; wait while a node that
\* feeds a missing input has not been visited yet; skip a node that received
\* nothing and whose feeders are all consumed; remove an entry that holds some
\* inputs but can never be completed.
_calculate_action(g, vis, name, inputs) ==
    LET missing == MandatorySockets(g, name) \ Keys(inputs)
        feeders == {e.from : e \in {d \in in_edges(g, name) : d.to_socket \in missing}}
    IN  IF missing = {} THEN "run"
        ELSE IF \E u \in feeders : vis[u] = 0 THEN "wait"
        ELSE IF Keys(inputs) = {} THEN "skip"
        ELSE "remove"

\* step 2c, skip: downstream nodes that are not queued and were never visited
\* enter the buffer with no inputs, to be evaluated by the loop in their turn.
RECURSIVE SkipEdges(_, _, _)
SkipEdges(edges, vis, buf) ==
    IF edges = << >> THEN buf
    ELSE LET t == Head(edges).to
             nxt == IF t \notin BufferNames(buf) /\ vis[t] = 0
                    THEN Append(buf, Item(t, EmptyInputs))
                    ELSE buf
         IN  SkipEdges(Tail(edges), vis, nxt)

_skip_downstream_unvisited_nodes(g, vis, component_name, buf) ==
    SkipEdges(out_edges(g, component_name), vis, buf)

\* step 2e: for each outgoing edge the destination's entry is created at the
\* tail when absent, and the named output field is merged into it when the
\* node produced it.
RECURSIVE RouteEdges(_, _, _)
RouteEdges(edges, node_results, buf) ==
    IF edges = << >> THEN buf
    ELSE LET e == Head(edges)
             made == IF e.to \in BufferNames(buf) THEN buf
                     ELSE Append(buf, Item(e.to, EmptyInputs))
             value == node_results[e.from_socket]
             nxt == IF value # Absent THEN SetField(made, e.to, e.to_socket, value)
                    ELSE made
         IN  RouteEdges(Tail(edges), node_results, nxt)

_route_output(g, node_results, node_name, buf) ==
    RouteEdges(out_edges(g, node_name), node_results, buf)

\* section 4.4: one snapshot per step index, holding copies
_record_pipeline_step(dbg, stp, buf, out) ==
    {d \in dbg : d.step # stp}
        \cup {[step |-> stp, inputs_buffer |-> buf, pipeline_output |-> out]}


\* ------------------------------------------------------------------- state
VARIABLES
    pipe,             \* the Pipeline under test: graph, component flavour, injected fault
    caller,           \* the calling program: which runs it issues, and whether it gathers them
    call,             \* call[r]: entry point, `data` and `debug` arguments of run r
    active,           \* the run holding the event loop, 0 when none does
    visits,           \* self.graph.nodes[n]["visits"], one counter per node of the Pipeline
    debug,            \* self.debug, one trace per Pipeline
    pc,               \* pc[r]: "idle", "loop", "awaiting", "returned", "failed"
    inputs_buffer,    \* local of run r
    pipeline_output,  \* local of run r
    step,             \* local of run r
    awaited,          \* the (name, inputs) whose coroutine run r is awaiting
    result,           \* what the caller of run r received
    execLog,          \* history: nodes run r handed to _arun_component, in order
    skipLog,          \* history: nodes run r skipped, in order
    invocations,      \* history: capability bodies started on behalf of run r, in order
    outputLog,        \* history: what each finished execution of run r returned, in order
    last              \* history: the latest decision of run r's loop

\* The MRKLAgent and the program that loads and runs it.
VARIABLES
    yaml,             \* the YAML file given to load_from_yaml, as parsed
    tools,            \* self.tools of the agent
    tool_map,         \* self.tool_map of the agent
    script,           \* what the prompt node generates, call after call
    apc,              \* position of the agent program
    notes,            \* local of MRKLAgent.run: the transcript
    llm_output,       \* pred[0], the latest generated text
    parsed,           \* what get_action_and_input made of llm_output
    outcome,          \* what the caller of load_from_yaml or run received
    prompts,          \* history: number of calls of prompt_node.prompt
    toolLog,          \* history: (pipeline, query) of each tool pipeline run
    loadLog,          \* history: pipeline names given to Pipeline.load_from_config
    query,            \* argument of MRKLAgent.run
    template,         \* self.template of the agent
    promptLog,        \* history: (run, call, transcript, query) of each call of prompt_node.prompt
    runNo,            \* history: number of the current call of MRKLAgent.run
    invocation_context,  \* argument of PythonRuntime.run
    runtime_result    \* what the caller of PythonRuntime.run received

pipeline_vars == << pipe, caller, call, active, visits, debug, pc, inputs_buffer, pipeline_output,
                    step, awaited, result, execLog, skipLog, invocations, outputLog, last >>

agent_vars == << yaml, tools, tool_map, script, apc, notes, llm_output, parsed, outcome,
                 prompts, toolLog, loadLog, query, template, promptLog, runNo >>

runtime_vars == << invocation_context, runtime_result >>

vars == << pipeline_vars, agent_vars, runtime_vars >>

config == << pipe, caller, call >>

NoOutputs == [n \in Nodes |-> MissingOutput]
OutputKeys(out) == {n \in Nodes : out[n] # MissingOutput}

Error(type, node, inputs, cause) == [type |-> type, node |-> node, inputs |-> inputs, cause |-> cause]
NoError == Error("none", "none", EmptyInputs, "none")
Pending == [kind |-> "pending", output |-> NoOutputs, has_debug |-> FALSE, debug |-> {}, error |-> NoError]
Returned(out, has_debug, dbg) ==
    [kind |-> "output", output |-> out, has_debug |-> has_debug, debug |-> dbg, error |-> NoError]
Raised(err) ==
    [kind |-> "error", output |-> NoOutputs, has_debug |-> FALSE, debug |-> {}, error |-> err]

Decision(action, name, args) == [action |-> action, name |-> name, inputs |-> args]

\* ------------------------------------------------------------ caller inputs
Fields(in, y, opt) == [s \in InSockets |-> CASE s = "in" -> in [] s = "y" -> y [] OTHER -> opt]
Feed(n) == Item(n, Fields(1, Absent, Absent))

\* The `data` arguments tried on each pipeline.
DataChoices(g) ==
    CASE g = "linear"   -> { << Feed("A") >>,
                             << Item("A", Fields(1, Absent, NoneValue)) >>,
                             << Item("B", Fields(Absent, Absent, 1)) >> }
      [] g = "merge"    -> { << Feed("A"), Feed("B") >>,
                             << Feed("B"), Feed("A") >>,
                             << Feed("A") >>,
                             << Item("C", Fields(Absent, Absent, 1)), Feed("A"), Feed("B") >>,
                             << Feed("A"), Item("B", Fields(NoneValue, Absent, Absent)) >> }
      [] g = "twomerge" -> { << Feed("A"), Feed("B") >>,
                             << Feed("A") >>,
                             << Feed("A"), Item("B", Fields(NoneValue, Absent, Absent)) >> }
      [] g = "branch"   -> { << Feed("R") >>, << Item("R", Fields(2, Absent, Absent)) >> }
      [] g = "selfloop" -> { << Feed("L") >> }
      [] g = "loopout"  -> { << Feed("L") >>, << Item("L", Fields(2, Absent, Absent)) >> }
      [] g = "source"   -> { << Item("S", EmptyInputs) >>,
                             << Item("S", Fields(Absent, Absent, NoneValue)) >>,
                             << Item("S", Fields(Absent, Absent, 1)) >>,
                             << Item("C", Fields(Absent, Absent, 1)), Item("S", EmptyInputs) >> }

Pipes ==
    { p \in [graph : GraphNames, flavour : {"sync", "async"},
             faulty : Nodes \cup {"none"}, error : {"TypeError", "ValueError"}] :
        /\ p.faulty \in GraphNodes(p.graph) \cup {"none"}
        /\ p.faulty = "none" => p.error = "ValueError" }

Calls(g, modes) == [mode : modes, data : DataChoices(g), debug : BOOLEAN]
IdleCall == [mode |-> "arun", data |-> << >>, debug |-> FALSE]

\* What one call of the component's run method does: the mapping it returns,
\* or the exception it raises.
Body(n, inputs) ==
    IF pipe.faulty = n
    THEN [raises |-> pipe.error, outputs |-> MissingOutput]
    ELSE [raises |-> "none", outputs |-> Capability(pipe.graph, n, inputs)]

\* No agent is loaded or run.
NoParse == [raises |-> "none", action |-> << >>, action_input |-> << >>]
NoOutcome == [kind |-> "pending"]
NoTemplate == [kind |-> "template", text |-> << >>]
\* PythonRuntime.run is not called.
NoContext == [given |-> FALSE, other |-> FALSE, input |-> [kind |-> "absent"]]
NoResult == [kind |-> "pending"]
NoRuntime ==
    /\ invocation_context = NoContext
    /\ runtime_result = NoResult

NoAgent ==
    /\ yaml = [pipelines |-> << >>, tools |-> << >>]
    /\ tools = << >>
    /\ tool_map = << >>
    /\ script = << >>
    /\ apc = "idle"
    /\ notes = << >>
    /\ llm_output = << >>
    /\ parsed = NoParse
    /\ outcome = NoOutcome
    /\ prompts = 0
    /\ toolLog = << >>
    /\ loadLog = << >>
    /\ query = << >>
    /\ template = NoTemplate
    /\ promptLog = << >>
    /\ runNo = 0

InitRun ==
    /\ NoAgent
    /\ NoRuntime
    /\ active = 0
    /\ visits = [n \in Nodes |-> 0]
    /\ debug = {}
    /\ pc = [r \in Runs |-> "idle"]
    /\ inputs_buffer = [r \in Runs |-> << >>]
    /\ pipeline_output = [r \in Runs |-> NoOutputs]
    /\ step = [r \in Runs |-> 0]
    /\ awaited = [r \in Runs |-> Item("none", EmptyInputs)]
    /\ result = [r \in Runs |-> Pending]
    /\ execLog = [r \in Runs |-> << >>]
    /\ skipLog = [r \in Runs |-> << >>]
    /\ invocations = [r \in Runs |-> << >>]
    /\ outputLog = [r \in Runs |-> << >>]
    /\ last = [r \in Runs |-> Decision("none", "none", EmptyInputs)]

\* One call of arun on a fresh Pipeline.
Init ==
    /\ pipe \in Pipes
    /\ caller = [runs |-> {1}, gathered |-> FALSE]
    /\ \E c \in Calls(pipe.graph, {"arun"}) : call = [r \in Runs |-> IF r = 1 THEN c ELSE IdleCall]
    /\ InitRun


\* ----------------------------------------------------------------- actions
Finished(r) == pc[r] \in {"returned", "failed"}

\* Lines 19-24: the comprehension keeps of every node its fields that are not
\* None; a node whose fields are all None stays, with no inputs.
NonNull(input_data) ==
    [s \in InSockets |-> IF input_data[s] = NoneValue THEN Absent ELSE input_data[s]]

\* A variant of lines 19-24 that leaves out the nodes left without inputs.
LoadedDroppingEmpty(data) ==
    SelectSeq([i \in DOMAIN data |-> Item(data[i].name, NonNull(data[i].inputs))],
              LAMBDA item : item.inputs # EmptyInputs)

Loaded(data) == [i \in DOMAIN data |-> Item(data[i].name, NonNull(data[i].inputs))]

\* Variant of line 15 that leaves the counters as the previous run left them.
CarriedVisits == visits
\* Line 15: `self._clear_visits_count()` is the first statement of arun.
ClearedVisits == _clear_visits_count

\* Lines 15-33: reset the visit counters, build the buffer from `data` without
\* the None fields, reset self.debug.  A caller that does not gather its runs
\* issues one only when the others are over.
Start(r) ==
    /\ r \in caller.runs
    /\ pc[r] = "idle"
    /\ active = 0
    /\ caller.gathered \/ \A q \in Runs \ {r} : pc[q] = "idle" \/ Finished(q)
    /\ visits' = ClearedVisits
    /\ inputs_buffer' = [inputs_buffer EXCEPT ![r] = Loaded(call[r].data)]
    /\ pipeline_output' = [pipeline_output EXCEPT ![r] = NoOutputs]
    /\ debug' = {}
    /\ step' = [step EXCEPT ![r] = 0]
    /\ pc' = [pc EXCEPT ![r] = "loop"]
    /\ active' = r
    /\ UNCHANGED << config, agent_vars, runtime_vars, awaited, result, execLog, skipLog, invocations, outputLog, last >>

\* Lines 34-40: the loop condition, the step count, the debug snapshot, the pop.
Popping(r) ==
    /\ pc[r] = "loop"
    /\ active = r
    /\ inputs_buffer[r] # << >>
    /\ step[r] < MaxSteps

component_name(r) == Head(inputs_buffer[r]).name
inputs(r) == Head(inputs_buffer[r]).inputs
popped(r) == Tail(inputs_buffer[r])

\* Variant of lines 36-40 that takes the snapshot once the entry is popped.
SteppedAfterPop(r) ==
    /\ step' = [step EXCEPT ![r] = @ + 1]
    /\ debug' = IF call[r].debug
                THEN _record_pipeline_step(debug, step[r] + 1, popped(r), pipeline_output[r])
                ELSE debug

Stepped(r) ==
    /\ step' = [step EXCEPT ![r] = @ + 1]
    /\ debug' = IF call[r].debug
                THEN _record_pipeline_step(debug, step[r] + 1, inputs_buffer[r], pipeline_output[r])
                ELSE debug

\* Variants of lines 43-47 with one decision lost.
ActionWithoutWait(r) ==
    LET a == _calculate_action(pipe.graph, visits, component_name(r), inputs(r))
    IN  IF _check_max_loops(visits, component_name(r)) THEN "raise"
        ELSE IF a = "wait" THEN "run" ELSE a
ActionWithoutSkip(r) ==
    LET a == _calculate_action(pipe.graph, visits, component_name(r), inputs(r))
    IN  IF _check_max_loops(visits, component_name(r)) THEN "raise"
        ELSE IF a = "skip" THEN "run" ELSE a
ActionWithoutGuard(r) ==
    _calculate_action(pipe.graph, visits, component_name(r), inputs(r))

\* Variant of lines 43-47 that applies the loop guard to 'run' only.
ActionGuardingRuns(r) ==
    LET a == _calculate_action(pipe.graph, visits, component_name(r), inputs(r))
    IN  IF a = "run" /\ _check_max_loops(visits, component_name(r)) THEN "raise" ELSE a

\* Variant of lines 43-47 that skips an entry without inputs.
ActionSkippingEmpty(r) ==
    IF _check_max_loops(visits, component_name(r)) THEN "raise"
    ELSE IF Keys(inputs(r)) = {} THEN "skip"
    ELSE _calculate_action(pipe.graph, visits, component_name(r), inputs(r))

\* Lines 43-47: the loop guard, then the action of the popped component.
Action(r) ==
    IF _check_max_loops(visits, component_name(r)) THEN "raise"
    ELSE _calculate_action(pipe.graph, visits, component_name(r), inputs(r))

\* Variant in which a failing run hands over the outputs gathered so far.
FailsWithOutputs(r, err) ==
    /\ pc' = [pc EXCEPT ![r] = "failed"]
    /\ result' = [result EXCEPT ![r] = [Raised(err) EXCEPT !.output = pipeline_output[r]]]
    /\ active' = 0

\* An exception leaves arun: the locals are gone, the caller gets the error.
Fails(r, err) ==
    /\ pc' = [pc EXCEPT ![r] = "failed"]
    /\ result' = [result EXCEPT ![r] = Raised(err)]
    /\ active' = 0

Decided(r, action) == last' = [last EXCEPT ![r] = Decision(action, component_name(r), inputs(r))]

\* Line 43: _check_max_loops raises.
LoopLimit(r) ==
    /\ Popping(r)
    /\ Action(r) = "raise"
    /\ Stepped(r)
    /\ inputs_buffer' = [inputs_buffer EXCEPT ![r] = popped(r)]
    /\ Fails(r, Error("PipelineMaxLoops", component_name(r), EmptyInputs, "none"))
    /\ Decided(r, "raise")
    /\ UNCHANGED << config, agent_vars, runtime_vars, visits, pipeline_output, awaited, execLog, skipLog, invocations, outputLog >>

\* Lines 50-59, buffer not empty: back to the tail with the same inputs.
Wait(r) ==
    /\ Popping(r)
    /\ Action(r) = "wait"
    /\ popped(r) # << >>
    /\ Stepped(r)
    /\ inputs_buffer' = [inputs_buffer EXCEPT ![r] = SetItem(popped(r), component_name(r), inputs(r))]
    /\ Decided(r, "wait")
    /\ UNCHANGED << config, agent_vars, runtime_vars, active, visits, pc, pipeline_output, awaited, result,
                    execLog, skipLog, invocations, outputLog >>

\* Variant of lines 50-59 without the test of line 51.
StuckRequeues(r) ==
    /\ Popping(r)
    /\ Action(r) = "wait"
    /\ popped(r) = << >>
    /\ Stepped(r)
    /\ inputs_buffer' = [inputs_buffer EXCEPT ![r] = SetItem(popped(r), component_name(r), inputs(r))]
    /\ Decided(r, "wait")
    /\ UNCHANGED << config, agent_vars, runtime_vars, active, visits, pc, pipeline_output, awaited, result,
                    execLog, skipLog, invocations, outputLog >>

\* Lines 50-56, buffer empty: nothing left to wait for.
Stuck(r) ==
    /\ Popping(r)
    /\ Action(r) = "wait"
    /\ popped(r) = << >>
    /\ Stepped(r)
    /\ inputs_buffer' = [inputs_buffer EXCEPT ![r] = popped(r)]
    /\ Fails(r, Error("PipelineRuntimeError", component_name(r), EmptyInputs, "none"))
    /\ Decided(r, "wait")
    /\ UNCHANGED << config, agent_vars, runtime_vars, visits, pipeline_output, awaited, execLog, skipLog, invocations, outputLog >>

\* Variant of line 63 that does not count the skipped node.
SkippedUncounted(r) == visits
\* Line 63: a skipped node is counted as visited.
Skipped(r) == [visits EXCEPT ![component_name(r)] = @ + 1]

\* Lines 62-67.
Skip(r) ==
    /\ Popping(r)
    /\ Action(r) = "skip"
    /\ Stepped(r)
    /\ visits' = Skipped(r)
    /\ inputs_buffer' = [inputs_buffer EXCEPT ![r] =
            _skip_downstream_unvisited_nodes(pipe.graph, visits', component_name(r), popped(r))]
    /\ skipLog' = [skipLog EXCEPT ![r] = Append(@, component_name(r))]
    /\ Decided(r, "skip")
    /\ UNCHANGED << config, agent_vars, runtime_vars, active, pc, pipeline_output, awaited, result, execLog, invocations, outputLog >>

\* Variant of lines 69-71 that puts the entry back at the tail.
DroppedToTail(r) == Append(popped(r), Head(inputs_buffer[r]))
\* Lines 69-71: `continue` right after the pop, the entry is gone.
Dropped(r) == popped(r)

\* Lines 69-71.
Remove(r) ==
    /\ Popping(r)
    /\ Action(r) = "remove"
    /\ Stepped(r)
    /\ inputs_buffer' = [inputs_buffer EXCEPT ![r] = Dropped(r)]
    /\ Decided(r, "remove")
    /\ UNCHANGED << config, agent_vars, runtime_vars, active, visits, pc, pipeline_output, awaited, result,
                    execLog, skipLog, invocations, outputLog >>


\* Variant of line 79 that takes every node for a terminal one.
TerminalAlways(name) == name \in Nodes

\* Lines 79-85: a node without outgoing edges stores its output under its own
\* name, overwriting an earlier one; any other node has its output routed.
Terminal(name) == out_edges(pipe.graph, name) = << >>

\* Variant of line 81 that keeps the first output of a node.
StoredOnce(out, name, output) ==
    IF Terminal(name) /\ out[name] = MissingOutput THEN [out EXCEPT ![name] = output] ELSE out

\* Variant of lines 79-81 without the test on the outgoing edges.
StoredAlways(out, name, output) == [out EXCEPT ![name] = output]

Stored(out, name, output) ==
    IF Terminal(name) THEN [out EXCEPT ![name] = output] ELSE out

Routed(buf, name, output) ==
    IF Terminal(name) THEN buf ELSE _route_output(pipe.graph, output, name, buf)

\* Lines 106-126 for a component whose run is a plain method.  The call in
\* `await instance.run(**inputs)` runs the method; a TypeError it raises is
\* taken by `except TypeError` and the method is called again; a mapping it
\* returns cannot be awaited, which raises TypeError too, and the method is
\* called again.  Whatever finally escapes is wrapped at line 121.
\* `calls` is the number of times the method ran.
_arun_component_plain(name, args) ==
    LET first == Body(name, args)
        second == Body(name, args)
    IN  IF first.raises \notin {"none", "TypeError"}
        THEN [raises |-> "PipelineRuntimeError", cause |-> first.raises,
              outputs |-> MissingOutput, calls |-> 1]
        ELSE IF second.raises # "none"
        THEN [raises |-> "PipelineRuntimeError", cause |-> second.raises,
              outputs |-> MissingOutput, calls |-> 2]
        ELSE [raises |-> "none", cause |-> "none", outputs |-> second.outputs, calls |-> 2]

\* Lines 112-126 for a component whose run is a coroutine function, once the
\* awaited coroutine is over.  A TypeError raised inside it is taken by
\* `except TypeError`; line 115 then only creates a second coroutine object,
\* which becomes `outputs` without ever running.
_arun_component_coroutine(name, args) ==
    LET first == Body(name, args)
    IN  IF first.raises = "TypeError"
        THEN [raises |-> "none", cause |-> "none", outputs |-> CoroutineObject, calls |-> 1]
        ELSE IF first.raises # "none"
        THEN [raises |-> "PipelineRuntimeError", cause |-> first.raises,
              outputs |-> MissingOutput, calls |-> 1]
        ELSE [raises |-> "none", cause |-> "none", outputs |-> first.outputs, calls |-> 1]

\* Lines 75-85 once _arun_component is over: its exception leaves arun, or
\* its output is stored or routed.  Routing reads fields of the output, which
\* a coroutine object does not have: that error is raised outside the try
\* block of _arun_component and leaves arun as it is.
Completes(r, name, args, buf, done) ==
    IF done.raises # "none"
    THEN /\ Fails(r, Error(done.raises, name, args, done.cause))
         /\ inputs_buffer' = [inputs_buffer EXCEPT ![r] = buf]
         /\ UNCHANGED << pipeline_output, outputLog >>
    ELSE IF done.outputs = CoroutineObject /\ ~Terminal(name)
    THEN /\ Fails(r, Error("AttributeError", "none", EmptyInputs, "none"))
         /\ inputs_buffer' = [inputs_buffer EXCEPT ![r] = buf]
         /\ outputLog' = [outputLog EXCEPT ![r] = Append(@, [name |-> name, outputs |-> done.outputs])]
         /\ UNCHANGED pipeline_output
    ELSE /\ outputLog' = [outputLog EXCEPT ![r] = Append(@, [name |-> name, outputs |-> done.outputs])]
         /\ pipeline_output' = [pipeline_output EXCEPT ![r] = Stored(@, name, done.outputs)]
         /\ inputs_buffer' = [inputs_buffer EXCEPT ![r] = Routed(buf, name, done.outputs)]
         /\ pc' = [pc EXCEPT ![r] = "loop"]
         /\ active' = r
         /\ UNCHANGED result

\* Variant of line 106 that counts every execution twice.
VisitedTwice(r) == [visits EXCEPT ![component_name(r)] = @ + 2]

\* Variant of line 106 that counts the visit only when the capability returns.
VisitedOnSuccess(r) ==
    IF Body(component_name(r), inputs(r)).raises = "none"
    THEN [visits EXCEPT ![component_name(r)] = @ + 1]
    ELSE visits

\* Line 106: the visit is counted on entry of _arun_component, ahead of the
\* try block and of the call of the capability.
Visited(r) == [visits EXCEPT ![component_name(r)] = @ + 1]

Runs_(r, n) == [execLog EXCEPT ![r] = Append(@, n)]
Invoked(r, n, k) == [invocations EXCEPT ![r] = @ \o [i \in 1..k |-> n]]

\* Line 75 on a plain component: nothing suspends, the iteration is one step.
RunPlain(r) ==
    /\ Popping(r)
    /\ Action(r) = "run"
    /\ call[r].mode = "arun"
    /\ pipe.flavour = "sync"
    /\ Stepped(r)
    /\ visits' = Visited(r)
    /\ execLog' = Runs_(r, component_name(r))
    /\ LET done == _arun_component_plain(component_name(r), inputs(r))
       IN  /\ invocations' = Invoked(r, component_name(r), done.calls)
           /\ Completes(r, component_name(r), inputs(r), popped(r), done)
    /\ Decided(r, "run")
    /\ UNCHANGED << config, agent_vars, runtime_vars, awaited, skipLog >>

\* Variant of line 75 that starts the component and goes on with the loop.
Detaches(r) == [at |-> "loop", active |-> r]

\* Line 75: `await self._arun_component(...)` holds arun at this line until
\* the component is over; the event loop is free meanwhile.
Suspends(r) == [at |-> "awaiting", active |-> 0]

\* Line 75 on a coroutine component, up to the await of line 113: the visit
\* is counted, the coroutine starts and suspends, the event loop is free.
RunCoroutine(r) ==
    /\ Popping(r)
    /\ Action(r) = "run"
    /\ call[r].mode = "arun"
    /\ pipe.flavour = "async"
    /\ Stepped(r)
    /\ visits' = Visited(r)
    /\ execLog' = Runs_(r, component_name(r))
    /\ invocations' = Invoked(r, component_name(r), 1)
    /\ awaited' = [awaited EXCEPT ![r] = Head(inputs_buffer[r])]
    /\ inputs_buffer' = [inputs_buffer EXCEPT ![r] = popped(r)]
    /\ pc' = [pc EXCEPT ![r] = Suspends(r).at]
    /\ active' = Suspends(r).active
    /\ Decided(r, "run")
    /\ UNCHANGED << config, agent_vars, runtime_vars, pipeline_output, result, skipLog, outputLog >>

\* The awaited coroutine is over and the event loop resumes run r.
Resume(r) ==
    /\ pc[r] = "awaiting"
    /\ active = 0
    /\ Completes(r, awaited[r].name, awaited[r].inputs, inputs_buffer[r],
                 _arun_component_coroutine(awaited[r].name, awaited[r].inputs))
    /\ awaited' = [awaited EXCEPT ![r] = Item("none", EmptyInputs)]
    /\ UNCHANGED << config, agent_vars, runtime_vars, visits, debug, step, execLog, skipLog, invocations, last >>

\* Variant of line 87 that stores the trace whatever the `debug` argument.
ExposedAlways(r) == TRUE
\* Line 87: `if debug:` guards the assignment of pipeline_output["_debug"].
Exposed(r) == call[r].debug

\* Lines 87-100: the buffer is empty; with debug the last snapshot is taken
\* and the trace goes into the output under "_debug".
Return(r) ==
    /\ pc[r] = "loop"
    /\ active = r
    /\ inputs_buffer[r] = << >>
    /\ debug' = IF call[r].debug
                THEN _record_pipeline_step(debug, step[r] + 1, inputs_buffer[r], pipeline_output[r])
                ELSE debug
    /\ result' = [result EXCEPT ![r] =
            IF Exposed(r) THEN Returned(pipeline_output[r], TRUE, debug')
            ELSE Returned(pipeline_output[r], FALSE, {})]
    /\ pc' = [pc EXCEPT ![r] = "returned"]
    /\ active' = 0
    /\ UNCHANGED << config, agent_vars, runtime_vars, visits, inputs_buffer, pipeline_output, step, awaited,
                    execLog, skipLog, invocations, outputLog, last >>

Arun(r) ==
    \/ Start(r)
    \/ LoopLimit(r)
    \/ Wait(r)
    \/ Stuck(r)
    \/ Skip(r)
    \/ Remove(r)
    \/ RunPlain(r)
    \/ RunCoroutine(r)
    \/ Resume(r)
    \/ Return(r)

Next == \E r \in Runs : Arun(r)

Spec == Init /\ [][Next]_vars


\* ------------------------------------------------------- gathered runs
\* async_demo.main: several arun calls on the same Pipeline, each with data of
\* the same shape, gathered, so that they interleave wherever a component
\* suspends.
InitConc ==
    /\ pipe \in Pipes
    /\ caller = [runs |-> Runs, gathered |-> TRUE]
    /\ \E c \in Calls(pipe.graph, {"arun"}) : call = [r \in Runs |-> c]
    /\ InitRun

SpecConc == InitConc /\ [][Next]_vars

\* ------------------------------------------------------ successive runs
\* MRKLAgent.run, lines 153-154: every dispatch of a tool calls the run entry
\* point of the same tool pipeline object anew, one call after the other is
\* over, with an input of the same shape.
InitDispatch ==
    /\ pipe \in Pipes
    /\ caller = [runs |-> Runs, gathered |-> FALSE]
    /\ \E c \in Calls(pipe.graph, {"arun"}) : call = [r \in Runs |-> c]
    /\ InitRun

SpecDispatch == InitDispatch /\ [][Next]_vars

\* ------------------------------------------------------ sequential mode
\* Section 4.2 step 2d-2f for the blocking entry point `run`: the capability
\* is invoked once and any exception it raises is wrapped.
_run_component(name, args) ==
    LET first == Body(name, args)
    IN  IF first.raises # "none"
        THEN [raises |-> "PipelineRuntimeError", cause |-> first.raises,
              outputs |-> MissingOutput, calls |-> 1]
        ELSE [raises |-> "none", cause |-> "none", outputs |-> first.outputs, calls |-> 1]

RunSequential(r) ==
    /\ Popping(r)
    /\ Action(r) = "run"
    /\ call[r].mode = "run"
    /\ Stepped(r)
    /\ visits' = [visits EXCEPT ![component_name(r)] = @ + 1]
    /\ execLog' = Runs_(r, component_name(r))
    /\ LET done == _run_component(component_name(r), inputs(r))
       IN  /\ invocations' = Invoked(r, component_name(r), done.calls)
           /\ Completes(r, component_name(r), inputs(r), popped(r), done)
    /\ Decided(r, "run")
    /\ UNCHANGED << config, agent_vars, runtime_vars, awaited, skipLog >>

\* The same `data` given first to one entry point, then to the other, on the
\* same Pipeline: run 1 is the sequential run, run 2 is arun.
InitEquiv ==
    /\ pipe \in Pipes
    /\ caller = [runs |-> {1, 2}, gathered |-> FALSE]
    /\ \E c \in Calls(pipe.graph, {"arun"}) :
            call = [r \in Runs |-> IF r = 1 THEN [c EXCEPT !.mode = "run"]
                                   ELSE IF r = 2 THEN c ELSE IdleCall]
    /\ InitRun

NextEquiv == \E r \in Runs : Arun(r) \/ RunSequential(r)

SpecEquiv == InitEquiv /\ [][NextEquiv]_vars

\* ------------------------------------------------------------ agent texts
\* Python strings are sequences of one-character strings, so that prefixes,
\* slices and splits are computed character by character.
MaxLines == 3
MaxTurns == 3

NL == "\n"
FINAL_ANSWER_ACTION == << "F","i","n","a","l"," ","A","n","s","w","e","r",":"," " >>
FinalAnswer == << "F","i","n","a","l"," ","A","n","s","w","e","r" >>
ActionInputPrefix == << "A","c","t","i","o","n"," ","I","n","p","u","t",":"," " >>
ActionPrefix == << "A","c","t","i","o","n",":"," " >>
Search == << "S","e","a","r","c","h" >>
Calculator == << "C","a","l","c" >>
Wiki == << "W","i","k","i" >>

\* str.startswith, s[k:], str.split(sep) and str.strip(ch).
startswith(s, prefix) == Len(s) >= Len(prefix) /\ SubSeq(s, 1, Len(prefix)) = prefix
SliceFrom(s, k) == IF k >= Len(s) THEN << >> ELSE SubSeq(s, k + 1, Len(s))

Min(S) == CHOOSE x \in S : \A y \in S : x <= y

RECURSIVE split(_, _)
split(s, sep) ==
    IF \A i \in DOMAIN s : s[i] # sep THEN << s >>
    ELSE LET i == CHOOSE j \in DOMAIN s : s[j] = sep /\ \A k \in 1..(j - 1) : s[k] # sep
         IN  << SubSeq(s, 1, i - 1) >> \o split(SliceFrom(s, i), sep)

RECURSIVE lstrip(_, _)
lstrip(s, ch) == IF s # << >> /\ Head(s) = ch THEN lstrip(Tail(s), ch) ELSE s
RECURSIVE rstrip(_, _)
rstrip(s, ch) == IF s # << >> /\ s[Len(s)] = ch THEN rstrip(SubSeq(s, 1, Len(s) - 1), ch) ELSE s
strip(s, ch) == rstrip(lstrip(s, ch), ch)

RECURSIVE join(_, _)
join(lines, sep) ==
    IF lines = << >> THEN << >>
    ELSE IF Len(lines) = 1 THEN lines[1]
    ELSE lines[1] \o << sep >> \o join(Tail(lines), sep)

\* Lines 259-273.  ps[-1] on an empty list and ps[-2] on a list of one line
\* raise IndexError; the two `raise ValueError` are the parse errors.
ParseError(type) == [raises |-> type, action |-> << >>, action_input |-> << >>]
ParsePair(action, action_input) == [raises |-> "none", action |-> action, action_input |-> action_input]

\* Variant of line 263 that keeps the empty lines.
get_action_and_input_unfiltered(text) ==
    LET ps == split(text, NL)
        n == Len(ps)
    IN  IF startswith(ps[n], FinalAnswer)
        THEN ParsePair(FinalAnswer, SliceFrom(ps[n], Len(FINAL_ANSWER_ACTION)))
        ELSE IF ~startswith(ps[n], ActionInputPrefix) THEN ParseError("ValueError")
        ELSE IF n < 2 THEN ParseError("IndexError")
        ELSE IF ~startswith(ps[n - 1], ActionPrefix) THEN ParseError("ValueError")
        ELSE ParsePair(SliceFrom(ps[n - 1], Len(ActionPrefix)),
                       strip(strip(SliceFrom(ps[n], Len(ActionInputPrefix)), " "), "\""))

get_action_and_input(text) ==
    LET ps == SelectSeq(split(text, NL), LAMBDA p : p # << >>)
        n == Len(ps)
    IN  IF n = 0 THEN ParseError("IndexError")
        ELSE IF startswith(ps[n], FinalAnswer)
        THEN ParsePair(FinalAnswer, SliceFrom(ps[n], Len(FINAL_ANSWER_ACTION)))
        ELSE IF ~startswith(ps[n], ActionInputPrefix) THEN ParseError("ValueError")
        ELSE IF n < 2 THEN ParseError("IndexError")
        ELSE IF ~startswith(ps[n - 1], ActionPrefix) THEN ParseError("ValueError")
        ELSE ParsePair(SliceFrom(ps[n - 1], Len(ActionPrefix)),
                       strip(strip(SliceFrom(ps[n], Len(ActionInputPrefix)), " "), "\""))

\* The lines a language model may write.
Answers == { << >>, << "4","2" >>, << " ","8" >> }
ActionInputs == { << >>, << "8" >>, << " ","8"," " >>, << "\"","8","\"" >>,
                  << " ","\"","8","\""," " >>, << "\""," ","8"," ","\"" >> }
ToolNames == { Search, Calculator }
LineChoices ==
    { << >>, << " " >>, << "h","m" >> }
        \cup { FINAL_ANSWER_ACTION \o t : t \in Answers }
        \cup { FinalAnswer \o t : t \in { << >>, << ":" >>, << ":","4","2" >>, << "s",":"," ","4","2" >> } }
        \cup { ActionPrefix \o a : a \in ToolNames \cup { Wiki } }
        \cup { ActionInputPrefix \o x : x \in ActionInputs }
        \cup { << "A","c","t","i","o","n"," ","I","n","p","u","t",":","8" >> }

Texts == UNION { [1..k -> LineChoices] : k \in 0..MaxLines }

\* ------------------------------------------------------------ parsing alone
\* get_action_and_input applied to one generated text; `script` keeps the
\* lines the text was written from.
FixedPipeline ==
    /\ pipe = [graph |-> "linear", flavour |-> "sync", faulty |-> "none", error |-> "ValueError"]
    /\ caller = [runs |-> {}, gathered |-> FALSE]
    /\ call = [r \in Runs |-> IdleCall]
    /\ active = 0
    /\ visits = [n \in Nodes |-> 0]
    /\ debug = {}
    /\ pc = [r \in Runs |-> "idle"]
    /\ inputs_buffer = [r \in Runs |-> << >>]
    /\ pipeline_output = [r \in Runs |-> NoOutputs]
    /\ step = [r \in Runs |-> 0]
    /\ awaited = [r \in Runs |-> Item("none", EmptyInputs)]
    /\ result = [r \in Runs |-> Pending]
    /\ execLog = [r \in Runs |-> << >>]
    /\ skipLog = [r \in Runs |-> << >>]
    /\ invocations = [r \in Runs |-> << >>]
    /\ outputLog = [r \in Runs |-> << >>]
    /\ last = [r \in Runs |-> Decision("none", "none", EmptyInputs)]

InitParse ==
    /\ FixedPipeline
    /\ NoRuntime
    /\ yaml = [pipelines |-> << >>, tools |-> << >>]
    /\ tools = << >>
    /\ tool_map = << >>
    /\ \E lines \in Texts : script = << lines >> /\ llm_output = join(lines, NL)
    /\ apc = "generated"
    /\ notes = << >>
    /\ parsed = NoParse
    /\ outcome = NoOutcome
    /\ prompts = 0
    /\ toolLog = << >>
    /\ loadLog = << >>
    /\ query = << >>
    /\ template = NoTemplate
    /\ promptLog = << >>
    /\ runNo = 0

ParseText ==
    /\ apc = "generated"
    /\ parsed' = get_action_and_input(llm_output)
    /\ apc' = "parsed"
    /\ UNCHANGED << pipeline_vars, runtime_vars, yaml, tools, tool_map, script, notes, llm_output, outcome,
                    prompts, toolLog, loadLog, query, template, promptLog, runNo >>

NextParse == ParseText

SpecParse == InitParse /\ [][NextParse]_vars


\* ------------------------------------------------------------- agent run
\* MRKLAgent.run driven by a prompt node that replays a script of generated
\* texts, over and over, and by tool pipelines that answer or raise.
MaxScript == 3

Thought == << "h","m" >>
SegAction(a, x) == << Thought, ActionPrefix \o a, ActionInputPrefix \o x >>
SegFinal(t) == << Thought, FINAL_ANSWER_ACTION \o t >>
Segments ==
    { SegAction(a, x) : a \in ToolNames \cup { Wiki }, x \in { << "8" >>, << " ","\"","8","\""," " >> } }
        \cup { SegFinal(<< "4","2" >>) }
        \cup { << Thought >>,
               << ActionInputPrefix \o << "8" >> >>,
               << FinalAnswer \o << "s",":"," ","4","2" >> >> }
Scripts == UNION { [1..k -> Segments] : k \in 1..MaxScript }

\* A tool pipeline: Pipeline.run(query=...) returns {"output": ...} or raises.
ToolPipeline(name, behaviour) == [pipeline_name |-> name, behaviour |-> behaviour]
NoPipeline == ToolPipeline("none", "none")
ToolOutput(pipeline, q) ==
    IF pipeline.behaviour = "raises" THEN [raises |-> "ValueError", output |-> << >>]
    ELSE [raises |-> "none", output |-> << "=" >> \o q]

Tool(pipeline_name, tool_name) == [pipeline_name |-> pipeline_name, tool_name |-> tool_name]
SearchTool == Tool("serpapi_pipeline", Search)
CalculatorTool == Tool("calculator_pipeline", Calculator)

\* Agents built as in test_run_agent_programmatically: tools and tool_map
\* given to the constructor (lines 117-122).
Agents ==
    { [tools |-> << SearchTool >>,
       tool_map |-> (Search :> ToolPipeline("serpapi_pipeline", "ok"))],
      [tools |-> << SearchTool, CalculatorTool >>,
       tool_map |-> (Search :> ToolPipeline("serpapi_pipeline", "ok")
                        @@ Calculator :> ToolPipeline("calculator_pipeline", "ok"))],
      [tools |-> << SearchTool, CalculatorTool >>,
       tool_map |-> (Search :> ToolPipeline("serpapi_pipeline", "raises")
                        @@ Calculator :> ToolPipeline("calculator_pipeline", "ok"))] }

\* Lines 124-140: the instruction template, built once by the constructor
\* from the tool records; of its text the model keeps the list of tool names
\* of line 124, the fixed sentences being the same for every agent.
Template(ts) ==
    [kind |-> "template", text |-> join([i \in DOMAIN ts |-> ts[i].tool_name], << ",", " " >>)]
\* The queries given to MRKLAgent.run.
Queries == { << "q" >>, << "w" >> }
Generated(text) == [kind |-> "generated", text |-> text]
Observed(text) == [kind |-> "observation", text |-> text]

AgentReturned(transcript, answer) == [kind |-> "returned", notes |-> transcript, answer |-> answer]
AgentRaised(type) == [kind |-> "error", type |-> type]

\* prompt_node.prompt, call number k (line 148).
prompt(k) == join(script[((k - 1) % Len(script)) + 1], NL)

InitAgent ==
    /\ FixedPipeline
    /\ NoRuntime
    /\ yaml = [pipelines |-> << >>, tools |-> << >>]
    /\ \E a \in Agents : tools = a.tools /\ tool_map = a.tool_map /\ template = Template(a.tools)
    /\ script \in Scripts
    /\ apc = "ready"
    /\ notes = << >>
    /\ llm_output = << >>
    /\ parsed = NoParse
    /\ outcome = NoOutcome
    /\ prompts = 0
    /\ toolLog = << >>
    /\ loadLog = << >>
    /\ query \in Queries
    /\ promptLog = << >>
    /\ runNo = 1

\* Line 144.
Begin ==
    /\ apc = "ready"
    /\ notes' = << template >>
    /\ apc' = "think"
    /\ UNCHANGED << pipeline_vars, runtime_vars, yaml, tools, tool_map, script, llm_output, parsed, outcome,
                    prompts, toolLog, loadLog, query, template, promptLog, runNo >>

\* Variant of line 145 with a cap on the iterations.
LoopConditionCapped(k) == k < 2
\* Line 145: `while True`.
LoopCondition(k) == TRUE

\* Variant of line 151 that never recognises the final answer.
IsFinalNever(p) == FALSE
\* Line 151.
IsFinal(p) == p.action = FinalAnswer

\* Variant of line 153 that falls back to the first tool.
LookupWithFallback(map, action) ==
    IF action \in DOMAIN map THEN [raises |-> "none", pipeline |-> map[action]]
    ELSE [raises |-> "none", pipeline |-> map[Search]]
\* Line 153: self.tool_map[action].
Lookup(map, action) ==
    IF action \in DOMAIN map THEN [raises |-> "none", pipeline |-> map[action]]
    ELSE [raises |-> "KeyError", pipeline |-> NoPipeline]

\* Line 148: the prompt node gets the transcript so far and the query.
Prompted(log, transcript, q) ==
    Append(log, [run |-> runNo, call |-> prompts + 1, notes |-> transcript, query |-> q])

\* Variant of lines 149 and 156 that keeps only the template and the latest text.
Restarted(transcript, segment) == << transcript[1], segment >>
\* Lines 149 and 156: `notes += ...` puts the new text at the end.
Extended(transcript, segment) == Append(transcript, segment)

\* Variant of lines 149 and 156 in which the transcript and self.template
\* are one mutable object.
TemplateAliased(tpl, transcript) ==
    [tpl EXCEPT !.text = tpl.text \o << "+" >>]
\* Lines 144, 149 and 156: `notes = self.template` binds the local to a str
\* and `notes += ...` rebinds it to a new one; self.template is not assigned.
TemplateAfter(tpl, transcript) == tpl

\* Lines 145-153: one generation, appended to the transcript, parsed; then
\* the return of the final answer, or the lookup of the tool.
Think ==
    /\ apc = "think"
    /\ prompts < MaxTurns
    /\ IF ~LoopCondition(prompts)
       THEN /\ apc' = "returned"
            /\ outcome' = AgentReturned(<< >>, << >>)
            /\ UNCHANGED << notes, llm_output, parsed, prompts, promptLog, template >>
       ELSE LET text == prompt(prompts + 1)
                p == get_action_and_input(text)
            IN  /\ prompts' = prompts + 1
                /\ llm_output' = text
                /\ promptLog' = Prompted(promptLog, notes, query)
                /\ notes' = Extended(notes, Generated(text))
                /\ template' = TemplateAfter(template, notes')
                /\ parsed' = p
                /\ IF p.raises # "none"
                   THEN apc' = "failed" /\ outcome' = AgentRaised(p.raises)
                   ELSE IF IsFinal(p)
                   THEN apc' = "returned" /\ outcome' = AgentReturned(notes', p.action_input)
                   ELSE IF Lookup(tool_map, p.action).raises # "none"
                   THEN apc' = "failed" /\ outcome' = AgentRaised(Lookup(tool_map, p.action).raises)
                   ELSE apc' = "act" /\ UNCHANGED outcome
    /\ UNCHANGED << pipeline_vars, runtime_vars, yaml, tools, tool_map, script, toolLog, loadLog, query, runNo >>

\* Variant of line 154 that runs the tool pipeline twice.
DispatchedTwice(log, pipeline, q) ==
    log \o << [pipeline |-> pipeline.pipeline_name, query |-> q],
              [pipeline |-> pipeline.pipeline_name, query |-> q] >>
\* Line 154: next_pipeline.run(query=action_input).
Dispatched(log, pipeline, q) ==
    Append(log, [pipeline |-> pipeline.pipeline_name, query |-> q])

\* Lines 154-156: the tool pipeline runs on the action input and its output
\* goes into the transcript as the observation.
Act ==
    /\ apc = "act"
    /\ LET next_pipeline == Lookup(tool_map, parsed.action).pipeline
           tool_result == ToolOutput(next_pipeline, parsed.action_input)
       IN  /\ toolLog' = Dispatched(toolLog, next_pipeline, parsed.action_input)
           /\ template' = TemplateAfter(template, notes')
           /\ IF tool_result.raises # "none"
              THEN /\ apc' = "failed"
                   /\ outcome' = AgentRaised(tool_result.raises)
                   /\ UNCHANGED notes
              ELSE /\ apc' = "think"
                   /\ notes' = Extended(notes, Observed(tool_result.output))
                   /\ UNCHANGED outcome
    /\ UNCHANGED << pipeline_vars, runtime_vars, yaml, tools, tool_map, script, llm_output, parsed,
                    prompts, loadLog, query, promptLog, runNo >>

NextAgent == Begin \/ Think \/ Act

SpecAgent == InitAgent /\ [][NextAgent]_vars

\* The same agent is run again once a run has returned or raised: the
\* prompt node replays its script from the start, the query may differ.
MaxAgentRuns == 2

Again ==
    /\ apc \in {"returned", "failed"}
    /\ runNo < MaxAgentRuns
    /\ runNo' = runNo + 1
    /\ query' \in Queries
    /\ apc' = "ready"
    /\ notes' = << >>
    /\ llm_output' = << >>
    /\ parsed' = NoParse
    /\ outcome' = NoOutcome
    /\ prompts' = 0
    /\ toolLog' = << >>
    /\ UNCHANGED << pipeline_vars, runtime_vars, yaml, tools, tool_map, script, loadLog, template, promptLog >>

NextAgentTwice == NextAgent \/ Again

SpecAgentTwice == InitAgent /\ [][NextAgentTwice]_vars


\* ------------------------------------------------------------ agent load
\* MRKLAgent.load_from_yaml on a YAML file that declares pipelines (each a
\* list of node types) and the `tools` parameter of its MRKLAgent components.
MaxTools == 2

MainPipeline == "mrkl_query_pipeline"
WikiTool == Tool("Wiki", Wiki)
OtherSearchTool == Tool("calculator_pipeline", Search)
ToolRecords == { SearchTool, CalculatorTool, WikiTool, OtherSearchTool }
ToolPipelineNames == { "serpapi_pipeline", "calculator_pipeline", "Wiki" }

PipelineNodes(name, agents) ==
    IF name = MainPipeline THEN [i \in 1..(agents + 1) |-> IF i <= agents THEN "MRKLAgent" ELSE "PromptNode"]
    ELSE << "Component" >>

YamlFiles ==
    { [pipelines |-> [n \in declared \cup {MainPipeline} |-> PipelineNodes(n, agents)],
       tools |-> t,
       pipeline_name |-> name] :
        declared \in SUBSET ToolPipelineNames,
        agents \in 0..2,
        t \in UNION { [1..k -> ToolRecords] : k \in 0..MaxTools },
        name \in { MainPipeline, "serpapi_pipeline" } }

\* Pipeline.load_from_config (lines 188-193 and 208-213): the pipeline of
\* that name with its components, or the error of an undeclared name.
load_from_config(cfg, name) ==
    IF name \in DOMAIN cfg.pipelines
    THEN [raises |-> "none", name |-> name, components |-> cfg.pipelines[name]]
    ELSE [raises |-> "PipelineConfigError", name |-> name, components |-> << >>]

InitLoad ==
    /\ FixedPipeline
    /\ NoRuntime
    /\ yaml \in YamlFiles
    /\ tools = << >>
    /\ tool_map = << >>
    /\ script = << >>
    /\ apc = "call"
    /\ notes = << >>
    /\ llm_output = << >>
    /\ parsed = NoParse
    /\ outcome = NoOutcome
    /\ prompts = 0
    /\ toolLog = << >>
    /\ loadLog = << >>
    /\ query = << >>
    /\ template = NoTemplate
    /\ promptLog = << >>
    /\ runNo = 0

\* Variant of lines 194-204 that takes the first agent node of several.
AgentCountErrorLenient(n) == n = 0
\* Lines 194-202: exactly one MRKLAgent node is required.
AgentCountError(n) == n = 0 \/ n > 1

\* Lines 187-204: load the named pipeline, look for its MRKLAgent nodes.  The
\* nodes were built from the YAML, with their `tools` and an empty tool_map.
LoadAgentPipeline ==
    /\ apc = "call"
    /\ LET mrkl_pipeline == load_from_config(yaml, yaml.pipeline_name)
           mrkl_agent_nodes == SelectSeq(mrkl_pipeline.components, LAMBDA node : node = "MRKLAgent")
       IN  /\ loadLog' = Append(loadLog, yaml.pipeline_name)
           /\ IF mrkl_pipeline.raises # "none" \/ AgentCountError(Len(mrkl_agent_nodes))
              THEN /\ apc' = "failed"
                   /\ outcome' = AgentRaised("PipelineConfigError")
                   /\ UNCHANGED << tools, template >>
              ELSE /\ apc' = "tools"
                   /\ tools' = yaml.tools
                   /\ template' = Template(yaml.tools)
                   /\ UNCHANGED outcome
    /\ UNCHANGED << pipeline_vars, runtime_vars, yaml, tool_map, script, notes, llm_output, parsed, prompts, toolLog,
                    query, promptLog, runNo >>

\* Variant of line 219 that keeps the first pipeline of a repeated tool name.
dict_zip_first(keys, values) ==
    [k \in {keys[i] : i \in DOMAIN keys} |-> values[Min({i \in DOMAIN keys : keys[i] = k})]]
\* dict(zip(keys, values)) of line 219: a later pair replaces an earlier one
\* of the same key.
dict_zip(keys, values) ==
    [k \in {keys[i] : i \in DOMAIN keys} |-> values[Max({i \in DOMAIN keys : keys[i] = k})]]

\* Lines 206-220: the tool pipelines are loaded in the order of `tools`, up
\* to the first one that fails; then the map is assigned, keyed by tool_name.
LoadToolPipelines ==
    /\ apc = "tools"
    /\ LET tool_names == [i \in DOMAIN tools |-> tools[i].tool_name]
           loads == [i \in DOMAIN tools |-> load_from_config(yaml, tools[i].pipeline_name)]
           failing == {i \in DOMAIN tools : loads[i].raises # "none"}
           tool_pipelines == [i \in DOMAIN tools |-> ToolPipeline(loads[i].name, "ok")]
       IN  IF failing # {}
           THEN /\ loadLog' = loadLog \o [i \in 1..Min(failing) |-> tools[i].pipeline_name]
                /\ apc' = "failed"
                /\ outcome' = AgentRaised("PipelineConfigError")
                /\ UNCHANGED tool_map
           ELSE /\ loadLog' = loadLog \o [i \in DOMAIN tools |-> tools[i].pipeline_name]
                /\ tool_map' = dict_zip(tool_names, tool_pipelines)
                /\ apc' = "loaded"
                /\ outcome' = [kind |-> "agent"]
    /\ UNCHANGED << pipeline_vars, runtime_vars, yaml, tools, script, notes, llm_output, parsed, prompts, toolLog,
                    query, template, promptLog, runNo >>

NextLoad == LoadAgentPipeline \/ LoadToolPipelines

SpecLoad == InitLoad /\ [][NextLoad]_vars


\* --------------------------------------------------------- python runtime
\* PythonRuntime.run (python_runtime.py, lines 14-39).  A snippet is taken by
\* what executing it does: the value it leaves in the global `final_result`,
\* if any, and the exception it raises, if any.
Unassigned == "unassigned"
NoRaise == [type |-> "none", message |-> ""]
Raise(type, message) == [type |-> type, message |-> message]
Raisables ==
    { NoRaise,
      Raise("ZeroDivisionError", "division by zero"),
      Raise("SyntaxError", "invalid syntax"),
      Raise("SystemExit", "1"),
      Raise("KeyboardInterrupt", "") }
Snippets == [final_result : {Unassigned, "8.0"}, raises : Raisables]
\* The empty string, the default of line 26.
EmptySnippet == [final_result |-> Unassigned, raises |-> NoRaise]
\* A list element that is not source text, a number say: exec refuses it.
NotSourceText ==
    [final_result |-> Unassigned,
     raises |-> Raise("TypeError", "exec() arg 1 must be a string, bytes or code object")]

\* The classes that derive from BaseException without deriving from Exception.
IsException(type) == type \notin {"none", "SystemExit", "KeyboardInterrupt", "GeneratorExit"}

\* Line 38: str(e).
str(e) == e.message

RuntimeInputs ==
    { [kind |-> "absent"], [kind |-> "int"] }
        \cup { [kind |-> "str", text |-> c] : c \in Snippets }
        \cup { [kind |-> "list", items |-> << >>],
               [kind |-> "list", items |-> << NotSourceText >>] }
        \cup { [kind |-> "list", items |-> << c >>] : c \in Snippets }
        \cup { [kind |-> "list", items |-> << c, EmptySnippet >>] : c \in Snippets }

\* None, or a dictionary with or without the key python_runtime_input and
\* with or without another key.
Contexts ==
    { NoContext } \cup [given : {TRUE}, other : BOOLEAN, input : RuntimeInputs]

\* `not invocation_context`: None or the empty dictionary.
IsFalsy(ctx) == ~ctx.given \/ (~ctx.other /\ ctx.input.kind = "absent")

RuntimeRaised(type, executed) ==
    [kind |-> "error", type |-> type, executed |-> executed, output |-> Unassigned, edge |-> "none"]
RuntimeReturned(output) ==
    [kind |-> "output", type |-> "none", executed |-> TRUE, output |-> output, edge |-> "output_1"]

\* exec(python_runtime_input, runtime_globals, None): the exception that
\* leaves it, and final_result in runtime_globals afterwards.
exec(source) == [raises |-> source.raises, final_result |-> source.final_result]

\* Variant of line 37 that catches nothing.
CaughtNever(e) == FALSE
\* Line 37: `except Exception as e`.
Caught(e) == IsException(e.type)

\* Lines 33-39.
try_exec(source) ==
    LET done == exec(source)
    IN  IF done.raises.type # "none"
        THEN IF Caught(done.raises) THEN RuntimeReturned(str(done.raises))
             ELSE RuntimeRaised(done.raises.type, TRUE)
        ELSE IF done.final_result = Unassigned THEN RuntimeRaised("KeyError", TRUE)
        ELSE RuntimeReturned(done.final_result)

\* Lines 23-39.
PythonRuntime_run(ctx) ==
    IF IsFalsy(ctx) THEN RuntimeRaised("ValueError", FALSE)
    ELSE LET python_runtime_input ==
                IF ctx.input.kind = "absent" THEN [kind |-> "str", text |-> EmptySnippet]
                ELSE ctx.input
         IN  IF python_runtime_input.kind = "list"
             THEN IF python_runtime_input.items = << >> THEN RuntimeRaised("IndexError", FALSE)
                  ELSE try_exec(python_runtime_input.items[1])
             ELSE IF python_runtime_input.kind = "str" THEN try_exec(python_runtime_input.text)
             ELSE RuntimeRaised("ValueError", FALSE)

InitRuntime ==
    /\ FixedPipeline
    /\ NoAgent
    /\ invocation_context \in Contexts
    /\ runtime_result = NoResult

RunRuntime ==
    /\ runtime_result = NoResult
    /\ runtime_result' = PythonRuntime_run(invocation_context)
    /\ UNCHANGED << pipeline_vars, agent_vars, invocation_context >>

NextRuntime == RunRuntime

SpecRuntime == InitRuntime /\ [][NextRuntime]_vars


\* ================================================================== claims
IsPrefix(s, t) == Len(s) <= Len(t) /\ \A i \in DOMAIN s : s[i] = t[i]
Before(log, a, b) == \A i \in DOMAIN log : log[i] = b => \E j \in 1..(i - 1) : log[j] = a
\* The nodes the caller supplied with their mandatory input "in".
Fed(r) == {call[r].data[i].name : i \in {j \in DOMAIN call[r].data : call[r].data[j].inputs["in"] > 0}}
Healthy == pipe.faulty = "none"

\* C1: on the linear pipeline A -> B -> C fed at A only, the nodes handed to
\* _arun_component are A, then B, then C, each once: the log of executions is
\* always a prefix of <<A, B, C>>, it is <<A, B, C>> when the run returns, and
\* the run does not fail unless a component raises.
C1_LinearOrder ==
    \A r \in caller.runs :
        (pipe.graph = "linear" /\ Fed(r) = {"A"}) =>
            /\ IsPrefix(execLog[r], << "A", "B", "C" >>)
            /\ pc[r] = "returned" => execLog[r] = << "A", "B", "C" >>
            /\ Healthy => pc[r] # "failed"

C1_Witness ==
    /\ pipe.graph = "linear" /\ Fed(1) = {"A"} /\ Healthy
    /\ pc[1] = "returned"
    /\ execLog[1] = << "A", "B", "C" >>

\* C2: on the pipeline {A -> C, B -> C}, C is never executed before A and B
\* both were, and never twice; when the caller fed both A and B, in either
\* order, a run that returns has executed C exactly once, and the run does not
\* fail unless a component raises.
C2_MergeWaits ==
    \A r \in caller.runs :
        pipe.graph = "merge" =>
            /\ Before(execLog[r], "A", "C")
            /\ Before(execLog[r], "B", "C")
            /\ Count(execLog[r], "C") <= 1
            /\ {"A", "B"} \subseteq Fed(r) =>
                    /\ pc[r] = "returned" => Count(execLog[r], "C") = 1
                    /\ Healthy => pc[r] # "failed"

\* C was in the buffer before A and B: it waited one turn, then ran once.
C2_Witness ==
    /\ pipe.graph = "merge" /\ Healthy
    /\ call[1].data = << Item("C", Fields(Absent, Absent, 1)), Feed("A"), Feed("B") >>
    /\ pc[1] = "returned"
    /\ step[1] = 4
    /\ execLog[1] = << "A", "B", "C" >>

\* C3: on the branching pipeline the router R feeds X or the path Y -> Y2.
\* No capability of a node on the path R did not select is ever invoked, and
\* those nodes are never handed to _arun_component; a run that returns has
\* executed every node of the selected path.
SelectedPath(r) ==
    IF call[r].data[1].inputs["in"] = 1 THEN {"R", "X"} ELSE {"R", "Y", "Y2"}
UnselectedPath(r) == GraphNodes("branch") \ SelectedPath(r)

C3_SkippedBranch ==
    \A r \in caller.runs :
        pipe.graph = "branch" =>
            /\ \A n \in UnselectedPath(r) :
                    Count(invocations[r], n) = 0 /\ Count(execLog[r], n) = 0
            /\ pc[r] = "returned" =>
                    \A n \in SelectedPath(r) :
                        Count(execLog[r], n) = 1 /\ Count(invocations[r], n) >= 1
            /\ Healthy => pc[r] # "failed"

C3_Witness ==
    /\ pipe.graph = "branch" /\ Healthy
    /\ pc[1] = "returned"
    /\ execLog[1] = << "R", "X" >>
    /\ skipLog[1] = << "Y", "Y2" >>
    /\ Count(invocations[1], "Y") = 0 /\ Count(invocations[1], "Y2") = 0


\* C4: a node is handed to _arun_component at most MaxLoopsAllowed times in
\* one run.  A pop that finds the node's visit counter at the maximum ends the
\* run with the loop-limit error and invokes nothing: the logs of executions
\* and of capability invocations stay as they were.  A coroutine component's
\* capability is so invoked at most MaxLoopsAllowed times.  On the self-referential
\* cycle whose components do not raise, that is how every run ends, after
\* exactly MaxLoopsAllowed executions.
PoppedAtLimit(r) == Popping(r) /\ visits[component_name(r)] >= MaxLoopsAllowed

C4_LoopLimit ==
    /\ [](\A r \in caller.runs :
            /\ \A n \in Nodes : Count(execLog[r], n) <= MaxLoopsAllowed
            /\ pipe.flavour = "async" =>
                    \A n \in Nodes : Count(invocations[r], n) <= MaxLoopsAllowed
            /\ (pipe.graph = "selfloop" /\ Healthy /\ Finished(r)) =>
                    /\ result[r].error.type = "PipelineMaxLoops"
                    /\ Count(execLog[r], "L") = MaxLoopsAllowed)
    /\ [][\A r \in caller.runs :
            (PoppedAtLimit(r) /\ step'[r] # step[r]) =>
                /\ pc'[r] = "failed"
                /\ result'[r].kind = "error"
                /\ result'[r].error.type = "PipelineMaxLoops"
                /\ result'[r].error.node = component_name(r)
                /\ execLog'[r] = execLog[r]
                /\ invocations'[r] = invocations[r]]_vars

C4_Witness ==
    /\ pipe.graph = "selfloop" /\ Healthy
    /\ pc[1] = "failed"
    /\ last[1].action = "raise" /\ last[1].name = "L"
    /\ result[1].error.type = "PipelineMaxLoops"
    /\ Count(execLog[1], "L") = MaxLoopsAllowed


\* C5: gathered runs on one Pipeline do not disturb each other's visit
\* counts.  While a run is under way, the counter it reads for a node is the
\* number of times this run executed or skipped the node; a run that ends
\* with the loop-limit error has itself visited that node MaxLoopsAllowed
\* times; and no run executes a node more than MaxLoopsAllowed times.
OwnVisits(r, n) == Count(execLog[r], n) + Count(skipLog[r], n)

C5_PrivateVisits ==
    \A r \in caller.runs :
        /\ pc[r] \in {"loop", "awaiting"} => \A n \in Nodes : visits[n] = OwnVisits(r, n)
        /\ (pc[r] = "failed" /\ result[r].error.type = "PipelineMaxLoops") =>
                OwnVisits(r, result[r].error.node) >= MaxLoopsAllowed
        /\ \A n \in Nodes : Count(execLog[r], n) <= MaxLoopsAllowed

\* C6: given the same data on the same Pipeline, arun (run 2) ends as the
\* sequential run (run 1) does: the same nodes executed in the same order, and
\* either the same output or an error of the same kind.
C6_SameAsSequential ==
    (Finished(1) /\ Finished(2)) =>
        /\ execLog[2] = execLog[1]
        /\ result[2].kind = result[1].kind
        /\ result[2].output = result[1].output
        /\ result[2].has_debug = result[1].has_debug
        /\ result[2].error.type = result[1].error.type

\* C7: once the capability of a node has raised, the run has failed with a
\* PipelineRuntimeError that names the node, carries the inputs it was given
\* and the original error as cause; the capability was invoked once for that
\* visit, and the failing node is the last entry the loop processed.
HasRaised(r) ==
    /\ pc[r] # "awaiting"
    /\ \E i \in DOMAIN execLog[r] : execLog[r][i] = pipe.faulty

C7_NodeErrorWrapped ==
    \A r \in caller.runs :
        HasRaised(r) =>
            /\ pc[r] = "failed"
            /\ result[r].kind = "error"
            /\ result[r].error.type = "PipelineRuntimeError"
            /\ result[r].error.node = pipe.faulty
            /\ result[r].error.inputs = last[r].inputs
            /\ result[r].error.cause = pipe.error
            /\ Count(invocations[r], pipe.faulty) = Count(execLog[r], pipe.faulty)
            /\ last[r].name = pipe.faulty

\* C8: the caller of a run that failed holds an error and no output mapping,
\* whatever pipeline_output had gathered; the caller of a run that returned
\* holds the whole pipeline_output, taken when the buffer was empty, and no
\* error; before the run is over the caller holds nothing.
C8_AllOrNothing ==
    \A r \in caller.runs :
        /\ pc[r] = "failed" =>
                /\ result[r].kind = "error"
                /\ result[r].error.type # "none"
                /\ result[r].output = NoOutputs
                /\ ~result[r].has_debug
        /\ pc[r] = "returned" =>
                /\ result[r].kind = "output"
                /\ result[r].error = NoError
                /\ result[r].output = pipeline_output[r]
                /\ inputs_buffer[r] = << >>
        /\ ~Finished(r) => result[r] = Pending

\* The loop limit ended a run that had already stored a terminal output.
C8_Witness ==
    /\ pc[1] = "failed"
    /\ result[1].error.type = "PipelineMaxLoops"
    /\ OutputKeys(pipeline_output[1]) = {"T"}
    /\ result[1].output = NoOutputs

\* C9: a pop whose action is "wait" and that leaves the buffer empty ends the
\* run at once with a PipelineRuntimeError naming the waiting node: the node is
\* not put back, the run neither goes on nor returns, and nothing is executed.
C9_StuckWaiter ==
    /\ [][\A r \in caller.runs :
            (Popping(r) /\ Action(r) = "wait" /\ popped(r) = << >> /\ step'[r] # step[r]) =>
                /\ pc'[r] = "failed"
                /\ result'[r].kind = "error"
                /\ result'[r].error.type = "PipelineRuntimeError"
                /\ result'[r].error.node = component_name(r)
                /\ inputs_buffer'[r] = << >>
                /\ execLog'[r] = execLog[r]
                /\ visits' = visits]_vars
    /\ [](\A r \in caller.runs :
            (last[r].action = "wait" /\ inputs_buffer[r] = << >>) => pc[r] = "failed")

C9_Witness ==
    /\ pipe.graph = "merge"
    /\ call[1].data = << Feed("A") >>
    /\ pc[1] = "failed"
    /\ last[1] = Decision("wait", "C", Fields(2, Absent, Absent))
    /\ inputs_buffer[1] = << >>
    /\ result[1].error = Error("PipelineRuntimeError", "C", EmptyInputs, "none")

\* C10: the entry of a node without outgoing edges in pipeline_output is what
\* its latest finished execution returned, however often it ran, and there is
\* no entry before its first execution; a run that returns hands over exactly
\* these entries.
Executions(r, n) == {i \in DOMAIN outputLog[r] : outputLog[r][i].name = n}

C10_LastOutputWins ==
    \A r \in caller.runs :
        /\ \A n \in Nodes :
                Terminal(n) =>
                    pipeline_output[r][n] =
                        IF Executions(r, n) = {} THEN MissingOutput
                        ELSE outputLog[r][Max(Executions(r, n))].outputs
        /\ pc[r] = "returned" => result[r].output = pipeline_output[r]

\* T ran twice behind the loop node and its two outputs differ.
C10_Witness ==
    /\ pipe.graph = "loopout" /\ Healthy
    /\ pc[1] = "returned"
    /\ Cardinality(Executions(1, "T")) = 2
    /\ \E i, j \in Executions(1, "T") :
            /\ i < j
            /\ outputLog[1][i].outputs # outputLog[1][j].outputs
            /\ result[1].output["T"] = outputLog[1][j].outputs
    /\ OutputKeys(result[1].output) = {"T"}

\* C11: the visit counter of a node is incremented when the node is handed to
\* _arun_component, before the outcome of its capability is known: every
\* execution step raises the counter by one, the end of an awaited capability
\* leaves it alone, and a run that failed in a component has that component
\* counted once per execution, the failed one included.
ThrewIn(r, n) ==
    /\ pc[r] = "failed"
    /\ result[r].error.type = "PipelineRuntimeError"
    /\ result[r].error.cause # "none"
    /\ result[r].error.node = n

C11_CountedBeforeResult ==
    /\ [][\A r \in Runs :
            RunPlain(r) \/ RunCoroutine(r) =>
                visits'[component_name(r)] = visits[component_name(r)] + 1]_vars
    /\ [][\A r \in Runs : Resume(r) => visits' = visits]_vars
    /\ [](\A n \in Nodes :
            ThrewIn(1, n) =>
                /\ visits[n] >= 1
                /\ visits[n] = Count(execLog[1], n) + Count(skipLog[1], n))

C11_Witness ==
    /\ pipe.graph = "linear"
    /\ pipe.faulty = "B"
    /\ pipe.error = "ValueError"
    /\ ThrewIn(1, "B")
    /\ visits["A"] = 1
    /\ visits["B"] = 1
    /\ outputLog[1] = << [name |-> "A", outputs |-> Capability("linear", "A", Fields(1, Absent, Absent))] >>

\* The generated text seen as the claims describe it: the non-empty lines the
\* model wrote, the last of them and the one before it.
Written == script[1]
NonEmpty == {i \in DOMAIN Written : Written[i] # << >>}
LastLine == Written[Max(NonEmpty)]
LineBefore == Written[Max(NonEmpty \ {Max(NonEmpty)})]
\* `x` without the run of `ch` at either end.
Without(x, ch) ==
    LET keep == {i \in DOMAIN x : x[i] # ch}
    IN  IF keep = {} THEN << >> ELSE SubSeq(x, Min(keep), Max(keep))
IsActionShape(a, x) ==
    /\ Cardinality(NonEmpty) >= 2
    /\ LastLine = ActionInputPrefix \o x
    /\ LineBefore = ActionPrefix \o a
IsFinalShape(t) ==
    /\ NonEmpty # {}
    /\ LastLine = FINAL_ANSWER_ACTION \o t
Accepted ==
    \/ \E a \in ToolNames \cup { Wiki }, x \in ActionInputs : IsActionShape(a, x)
    \/ \E t \in Answers : IsFinalShape(t)

\* C12: a text whose last non-empty line is "Action Input: <x>" and whose
\* non-empty line before it is "Action: <a>" parses to (<a>, <x> without the
\* spaces around it and then without the double quotes around it); a text
\* whose last non-empty line is "Final Answer: <t>" parses to
\* ("Final Answer", <t>).
C12_ParsesAcceptedShapes ==
    apc = "parsed" =>
        /\ \A a \in ToolNames \cup { Wiki }, x \in ActionInputs :
                IsActionShape(a, x) => parsed = ParsePair(a, Without(Without(x, " "), "\""))
        /\ \A t \in Answers :
                IsFinalShape(t) => parsed = ParsePair(FinalAnswer, t)

C12_Witness ==
    /\ apc = "parsed"
    /\ Written = << ActionPrefix \o Search, << >>, ActionInputPrefix \o << " ","\"","8","\""," " >> >>
    /\ parsed = ParsePair(Search, << "8" >>)

\* C13: every generated text that has neither accepted shape makes
\* get_action_and_input fail with the parse error (ValueError).
C13_MalformedRejected ==
    apc = "parsed" /\ ~Accepted => parsed.raises = "ValueError"


\* The script seen as the claims describe it.
Eight == << "8" >>
QuotedEight == << " ","\"","8","\""," " >>
FortyTwo == << "4","2" >>
Generations == prompts > 0 /\ apc \notin {"idle", "ready", "generated", "parsed"}
PipelineOf(a) == (CHOOSE i \in DOMAIN tools : tools[i].tool_name = a)
ScriptedAction(seg, a, x) == seg = << Thought, ActionPrefix \o a, ActionInputPrefix \o x >>
ScriptedFinal(seg) == seg # << >> /\ startswith(seg[Len(seg)], FinalAnswer)
KnownTool(a) == a \in DOMAIN tool_map /\ tool_map[a].behaviour = "ok"

\* C14: when the parsed action is no key of the tool map, the run fails with
\* the lookup error (KeyError), no tool pipeline runs for that action (the
\* tool runs are those of the earlier iterations) and no other tool is taken.
UnknownAction ==
    /\ Generations
    /\ parsed.raises = "none"
    /\ parsed.action # FinalAnswer
    /\ parsed.action \notin DOMAIN tool_map

C14_UnknownToolFatal ==
    UnknownAction =>
        /\ apc = "failed"
        /\ outcome = AgentRaised("KeyError")
        /\ Len(toolLog) = prompts - 1
        /\ Len(notes) = 2 * prompts

C14_Witness ==
    /\ script = << SegAction(Search, Eight), SegAction(Wiki, Eight) >>
    /\ UnknownAction
    /\ parsed.action = Wiki
    /\ apc = "failed"
    /\ prompts = 2
    /\ toolLog = << [pipeline |-> "serpapi_pipeline", query |-> Eight] >>

\* C15: the run returns at the first generated segment that parses to the
\* final answer: it returns the whole transcript (template, every generated
\* segment, every observation, the last segment included) and the answer
\* text, and that segment is followed by no tool run and no generation.
ParsedFinal ==
    /\ Generations
    /\ parsed.raises = "none"
    /\ parsed.action = FinalAnswer

C15_ReturnsOnFinalAnswer ==
    /\ ParsedFinal <=> apc = "returned"
    /\ ParsedFinal =>
        /\ outcome = AgentReturned(notes, parsed.action_input)
        /\ prompts = Min({k \in DOMAIN script : ScriptedFinal(script[k])})
        /\ Len(toolLog) = prompts - 1
        /\ Len(notes) = 2 * prompts
        /\ notes[1] = template
        /\ \A k \in 1..prompts : notes[2 * k] = Generated(join(script[k], NL))
        /\ \A k \in 1..(prompts - 1) : notes[2 * k + 1].kind = "observation"
    /\ apc \in {"returned", "failed"} => ~ENABLED NextAgent

C15_Witness ==
    /\ script = << SegAction(Search, Eight), SegFinal(FortyTwo) >>
    /\ apc = "returned"
    /\ outcome.answer = FortyTwo
    /\ Len(outcome.notes) = 4
    /\ prompts = 2
    /\ Len(toolLog) = 1

\* C16: a script of k well-formed action segments naming known, working
\* tools and then a final answer gives exactly k tool runs, the i-th one on the
\* pipeline of the tool named by segment i with that segment's action input
\* as query, exactly k + 1 generations, and the scripted answer.
WellScripted(k) ==
    /\ Len(script) = k + 1
    /\ script[k + 1] = SegFinal(FortyTwo)
    /\ \A i \in 1..k : \E a \in ToolNames, x \in {Eight, QuotedEight} :
            ScriptedAction(script[i], a, x) /\ KnownTool(a)

C16_ScriptedCalls ==
    \A k \in 0..(MaxScript - 1) :
        WellScripted(k) =>
            /\ apc # "failed"
            /\ prompts <= k + 1
            /\ Len(toolLog) <= k
            /\ \A i \in DOMAIN toolLog : \E a \in ToolNames, x \in {Eight, QuotedEight} :
                    /\ ScriptedAction(script[i], a, x)
                    /\ toolLog[i] = [pipeline |-> tools[PipelineOf(a)].pipeline_name, query |-> Eight]
            /\ apc = "returned" =>
                    /\ prompts = k + 1
                    /\ Len(toolLog) = k
                    /\ outcome.answer = FortyTwo

C16_Witness ==
    /\ script = << SegAction(Search, QuotedEight), SegAction(Calculator, Eight), SegFinal(FortyTwo) >>
    /\ apc = "returned"
    /\ prompts = 3
    /\ toolLog = << [pipeline |-> "serpapi_pipeline", query |-> Eight],
                    [pipeline |-> "calculator_pipeline", query |-> Eight] >>
    /\ outcome.answer = FortyTwo

\* C19: nothing in the loop bounds its iterations: under a script made only of
\* well-formed actions naming known, working tools the run has neither
\* returned nor failed after any number of iterations, each of which made one
\* generation and one tool run.
Endless ==
    \A i \in DOMAIN script : \E a \in ToolNames, x \in {Eight, QuotedEight} :
        ScriptedAction(script[i], a, x) /\ KnownTool(a)

C19_NoIterationCap ==
    Endless /\ apc # "ready" =>
        /\ apc \in {"think", "act"}
        /\ outcome = NoOutcome
        /\ apc = "think" => Len(toolLog) = prompts
        /\ apc = "act" => Len(toolLog) = prompts - 1

C19_Witness ==
    /\ Endless
    /\ script = << SegAction(Search, Eight) >>
    /\ apc = "think"
    /\ prompts = MaxTurns
    /\ Len(toolLog) = MaxTurns
    /\ Len(notes) = 1 + 2 * MaxTurns


\* A pipeline name as the characters of a dictionary key.
Chars(name) ==
    CASE name = "serpapi_pipeline" ->
            << "s","e","r","p","a","p","i","_","p","i","p","e","l","i","n","e" >>
      [] name = "calculator_pipeline" ->
            << "c","a","l","c","u","l","a","t","o","r","_","p","i","p","e","l","i","n","e" >>
      [] name = "Wiki" -> Wiki
      [] OTHER -> << >>

LastOf(a) == Max({i \in DOMAIN tools : tools[i].tool_name = a})

AgentNodes == Cardinality({i \in DOMAIN yaml.pipelines[yaml.pipeline_name] :
                              yaml.pipelines[yaml.pipeline_name][i] = "MRKLAgent"})
WrongAgentCount ==
    /\ apc # "call"
    /\ yaml.pipeline_name \in DOMAIN yaml.pipelines
    /\ AgentNodes # 1

C18_AgentCountChecked ==
    WrongAgentCount =>
        /\ apc = "failed"
        /\ outcome = AgentRaised("PipelineConfigError")
        /\ loadLog = << yaml.pipeline_name >>
        /\ tool_map = << >>
        /\ tools = << >>

C18_Witness ==
    /\ WrongAgentCount
    /\ AgentNodes = 2
    /\ yaml.tools = << SearchTool, CalculatorTool >>
    /\ DOMAIN yaml.pipelines = ToolPipelineNames \cup {MainPipeline}
    /\ apc = "failed"
    /\ loadLog = << MainPipeline >>


\* C20: the output a run returns has the "_debug" entry exactly when the run
\* was called with debug; the entry is then the trace of the run, one
\* snapshot per step and a last one; apart from it the keys of the output
\* are names of nodes without outgoing edges.
C20_DebugOnlyOnRequest ==
    pc[1] = "returned" =>
        /\ result[1].has_debug <=> call[1].debug
        /\ call[1].debug => /\ result[1].debug = debug
                            /\ {d.step : d \in result[1].debug} = 1..(step[1] + 1)
        /\ ~call[1].debug => result[1].debug = {} /\ debug = {}
        /\ \A n \in OutputKeys(result[1].output) : out_edges(pipe.graph, n) = << >>

C20_Witness ==
    /\ pc[1] = "returned"
    /\ call[1].debug
    /\ pipe.graph = "linear"
    /\ result[1].has_debug
    /\ Cardinality(result[1].debug) = 4
    /\ OutputKeys(result[1].output) = {"C"}

\* C21: a run whose node executions all end ends itself: no reachable state
\* has a buffer in which every entry is decided 'wait' while another entry
\* remains, since a 'wait' only moves the head to the tail and such a buffer
\* is then rotated for ever.
EndlessWait(r) ==
    /\ pc[r] = "loop"
    /\ Len(inputs_buffer[r]) >= 2
    /\ \A i \in DOMAIN inputs_buffer[r] :
            /\ ~_check_max_loops(visits, inputs_buffer[r][i].name)
            /\ _calculate_action(pipe.graph, visits, inputs_buffer[r][i].name,
                                 inputs_buffer[r][i].inputs) = "wait"

C21_NoEndlessWait == \A r \in Runs : ~EndlessWait(r)


\* What a step of run r leaves alone when it invokes nothing and ends nothing.
NothingInvoked(r) ==
    /\ invocations' = invocations
    /\ execLog' = execLog
    /\ outputLog' = outputLog
    /\ pipeline_output' = pipeline_output
    /\ result' = result
    /\ pc'[r] = "loop"

\* C22: a 'wait' step puts the popped node back at the tail of the buffer
\* with the inputs it had, keeps the other entries and their order, and
\* changes no visit counter and no output; no capability is invoked.
C22_WaitFrame ==
    [][\A r \in Runs :
        Wait(r) =>
            /\ inputs_buffer'[r] = Append(Tail(inputs_buffer[r]), Head(inputs_buffer[r]))
            /\ visits' = visits
            /\ NothingInvoked(r)]_vars

C22_Witness ==
    /\ pipe.graph = "merge"
    /\ last[1] = Decision("wait", "C", Fields(Absent, Absent, 1))
    /\ step[1] = 1
    /\ inputs_buffer[1] = << Feed("A"), Feed("B"), Item("C", Fields(Absent, Absent, 1)) >>
    /\ visits = [n \in Nodes |-> 0]

\* C23: a 'skip' step raises the visit counter of the skipped node by one and
\* no other counter, invokes nothing, stores nothing, does not put the node
\* back, keeps the entries that were queued, queues every not yet visited
\* downstream node (a newly queued one without inputs), and the run goes on.
C23_SkipStep ==
    [][\A r \in Runs :
        Skip(r) =>
            LET n == component_name(r)
                downstream == {out_edges(pipe.graph, n)[i].to : i \in DOMAIN out_edges(pipe.graph, n)}
            IN  /\ visits'[n] = visits[n] + 1
                /\ \A m \in Nodes \ {n} : visits'[m] = visits[m]
                /\ NothingInvoked(r)
                /\ n \notin BufferNames(inputs_buffer'[r])
                /\ IsPrefix(Tail(inputs_buffer[r]), inputs_buffer'[r])
                /\ \A d \in downstream : visits'[d] = 0 => d \in BufferNames(inputs_buffer'[r])
                /\ \A i \in (Len(inputs_buffer[r]))..Len(inputs_buffer'[r]) :
                        /\ inputs_buffer'[r][i].name \in downstream
                        /\ inputs_buffer'[r][i].inputs = EmptyInputs]_vars

C23_Witness ==
    /\ pipe.graph = "branch"
    /\ last[1].action = "skip"
    /\ last[1].name = "Y"
    /\ visits["Y"] = 1
    /\ "Y2" \in BufferNames(inputs_buffer[1])
    /\ pc[1] = "loop"
    /\ "Y" \notin {execLog[1][i] : i \in DOMAIN execLog[1]}

\* C24: a 'remove' step drops the popped entry and nothing else: the other
\* entries and their order, every visit counter and the outputs are as
\* before, and no capability is invoked.
C24_RemoveFrame ==
    [][\A r \in Runs :
        Remove(r) =>
            /\ inputs_buffer'[r] = Tail(inputs_buffer[r])
            /\ visits' = visits
            /\ NothingInvoked(r)]_vars

C24_Witness ==
    /\ pipe.graph = "twomerge"
    /\ last[1] = Decision("remove", "C", Fields(2, Absent, Absent))
    /\ pc[1] = "loop"
    /\ inputs_buffer[1] = << Item("T", Fields(2, Absent, Absent)) >>
    /\ visits["C"] = 0
    /\ execLog[1] = << "A" >>

\* C25: when a run has started and nothing was popped yet, every visit
\* counter is zero and the buffer holds the caller's nodes in the caller's
\* order, each with exactly its fields that are not None; a node whose
\* fields are all None is there with no inputs.
C25_StartState ==
    (pc[1] = "loop" /\ step[1] = 0) =>
        /\ \A n \in Nodes : visits[n] = 0
        /\ Len(inputs_buffer[1]) = Len(call[1].data)
        /\ \A i \in DOMAIN call[1].data :
              /\ inputs_buffer[1][i].name = call[1].data[i].name
              /\ \A s \in InSockets :
                    LET given == call[1].data[i].inputs[s]
                        held == inputs_buffer[1][i].inputs[s]
                    IN  /\ held # NoneValue
                        /\ given \notin {NoneValue, Absent} => held = given
                        /\ given \in {NoneValue, Absent} => held = Absent

C25_Witness ==
    /\ pc[1] = "loop"
    /\ step[1] = 0
    /\ call[1].data = << Feed("A"), Item("B", Fields(NoneValue, Absent, Absent)) >>
    /\ inputs_buffer[1] = << Feed("A"), Item("B", EmptyInputs) >>

\* C26: the keys of the pipeline output are nodes without outgoing edges that
\* were executed in this run, and the step that takes the output of a node
\* with outgoing edges leaves the pipeline output as it was.
Executed(r) == {execLog[r][i] : i \in DOMAIN execLog[r]}

InFlight(r) == Len(execLog[r]) - Len(outputLog[r])

C27_OneAtATime ==
    /\ [](\A r \in Runs :
            /\ InFlight(r) \in {0, 1}
            /\ InFlight(r) = 1 => pc[r] \in {"awaiting", "failed"}
            /\ pc[r] = "awaiting" => InFlight(r) = 1 /\ awaited[r].name = execLog[r][Len(execLog[r])])
    /\ [][\A r \in Runs :
            (step'[r] # step[r] \/ execLog'[r] # execLog[r]) =>
                /\ pc[r] = "loop"
                /\ InFlight(r) = 0
                /\ Len(execLog'[r]) <= Len(execLog[r]) + 1]_vars

C27_Witness ==
    /\ pipe.flavour = "async"
    /\ pc[1] = "awaiting"
    /\ awaited[1].name = "B"
    /\ execLog[1] = << "A", "B" >>
    /\ Len(outputLog[1]) = 1
    /\ inputs_buffer[1] # << >>

\* C28: with debug requested, after n iterations the trace holds one
\* snapshot for each of the steps 1..n, each iteration adding the snapshot of
\* the buffer as it is before the pop; the return adds snapshot n+1, with
\* the empty buffer; no step changes or removes a snapshot already taken.
Snapshot(stp, buf, out) == [step |-> stp, inputs_buffer |-> buf, pipeline_output |-> out]
StepIndices == {d.step : d \in debug}

C28_TraceGrows ==
    /\ [](call[1].debug =>
            /\ StepIndices = 1..(step[1] + IF pc[1] = "returned" THEN 1 ELSE 0)
            /\ Cardinality(debug) = Cardinality(StepIndices)
            /\ pc[1] = "returned" =>
                    /\ Snapshot(step[1] + 1, << >>, pipeline_output[1]) \in debug
                    /\ result[1].debug = debug)
    /\ [][call[1].debug =>
            /\ debug \subseteq debug'
            /\ step'[1] # step[1] =>
                    /\ step'[1] = step[1] + 1
                    /\ debug' = debug \cup {Snapshot(step'[1], inputs_buffer[1], pipeline_output[1])}
                    /\ inputs_buffer[1] # << >>
            /\ step'[1] = step[1] /\ pc'[1] # "returned" => debug' = debug]_vars

C28_Witness ==
    /\ call[1].debug
    /\ pipe.graph = "linear"
    /\ pc[1] = "returned"
    /\ step[1] = 3
    /\ Cardinality(debug) = 4
    /\ Snapshot(2, << Item("B", Fields(2, Absent, Absent)) >>, NoOutputs) \in debug

\* C29: the transcript given to the prompt node in one iteration of a run is
\* the one given in the iteration before, followed by the text generated
\* then and a line feed, by 'Observation: ' and the output of the tool, and
\* by a line feed and 'Thought: '; the query given is that of the run.
ObservationPrefix == << "O","b","s","e","r","v","a","t","i","o","n",":"," " >>
ThoughtPrefix == << "T","h","o","u","g","h","t",":"," " >>

\* The text of a transcript, as lines 144, 149 and 156 put it together.
RenderedSegment(seg) ==
    CASE seg.kind = "generated" -> seg.text \o NL
      [] seg.kind = "observation" -> ObservationPrefix \o seg.text \o NL \o ThoughtPrefix
      [] OTHER -> seg.text

RECURSIVE Rendered(_)
Rendered(transcript) ==
    IF transcript = << >> THEN << >>
    ELSE RenderedSegment(Head(transcript)) \o Rendered(Tail(transcript))

C29_TranscriptAppendOnly ==
    /\ \A i \in DOMAIN promptLog : promptLog[i].query = query /\ promptLog[i].call = i
    /\ promptLog # << >> => Rendered(promptLog[1].notes) = template.text
    /\ \A i \in DOMAIN promptLog : i + 1 \in DOMAIN promptLog =>
            /\ i \in DOMAIN toolLog
            /\ Rendered(promptLog[i + 1].notes) =
                    Rendered(promptLog[i].notes) \o prompt(i) \o NL
                        \o ObservationPrefix \o << "=" >> \o toolLog[i].query \o NL \o ThoughtPrefix
            /\ IsPrefix(promptLog[i].notes, promptLog[i + 1].notes)
            /\ Len(promptLog[i + 1].notes) = Len(promptLog[i].notes) + 2

C29_Witness ==
    /\ script = << SegAction(Search, Eight), SegFinal(FortyTwo) >>
    /\ apc = "returned"
    /\ Len(promptLog) = 2
    /\ Len(promptLog[2].notes) = 3
    /\ promptLog[2].notes[3] = Observed(<< "=" >> \o Eight)
    /\ promptLog[2].query = promptLog[1].query

\* C30: a run leaves self.tools, self.tool_map and self.template as they
\* are, whether it returns or raises, and the first transcript given to the
\* prompt node is the same in every run of the agent.
C30_RunKeepsAgent ==
    /\ [][tools' = tools /\ tool_map' = tool_map /\ template' = template]_vars
    /\ [](\A i \in DOMAIN promptLog :
            promptLog[i].call = 1 => promptLog[i].notes = << Template(tools) >>)
    /\ [](\A i, j \in DOMAIN promptLog :
            (promptLog[i].call = promptLog[j].call /\ promptLog[i].call <= Len(script)) =>
                Rendered(promptLog[i].notes) = Rendered(promptLog[j].notes))

C30_Witness ==
    /\ runNo = 2
    /\ apc = "returned"
    /\ script = << SegAction(Search, Eight), SegFinal(FortyTwo) >>
    /\ Len(promptLog) = 4
    /\ promptLog[1].run = 1 /\ promptLog[3].run = 2
    /\ promptLog[3].notes = promptLog[1].notes
    /\ promptLog[1].query # promptLog[3].query

\* The same after a run that raised in its tool pipeline.
C30_WitnessRaised ==
    /\ runNo = 2
    /\ apc = "failed"
    /\ script = << SegAction(Search, Eight) >>
    /\ tool_map[Search].behaviour = "raises"
    /\ Len(promptLog) = 2
    /\ promptLog[1].run = 1 /\ promptLog[2].run = 2
    /\ promptLog[2].notes = promptLog[1].notes

\* C31: every dispatch of a tool pipeline starts with all visit counters at
\* zero and with a buffer built from its own input, whatever the dispatches
\* before it left behind, so that a later dispatch ends as the first one did:
\* it raises (the loop limit included) only if the first one raised the same.
C31_FreshDispatch ==
    \A r \in Runs :
        /\ (pc[r] = "loop" /\ step[r] = 0) =>
                /\ \A n \in Nodes : visits[n] = 0
                /\ inputs_buffer[r] = Loaded(call[r].data)
                /\ pipeline_output[r] = NoOutputs
        /\ \A q \in Runs : (Finished(r) /\ Finished(q)) =>
                /\ result[r] = result[q]
                /\ execLog[r] = execLog[q]

C31_Witness ==
    /\ pipe.graph = "loopout"
    /\ Healthy
    /\ pc[1] = "returned"
    /\ pc[2] = "returned"
    /\ Count(execLog[1], "L") > 1
    /\ execLog[2] = execLog[1]
    /\ visits["L"] = Count(execLog[2], "L") + Count(skipLog[2], "L")
    /\ result[2].kind = "output"
    /\ result[2] = result[1]

\* C32: a node without mandatory inputs and without incoming edges is handed
\* to _arun_component by the step that pops it for the first time; no step
\* makes it wait, skips it or removes it, and it is popped once only.
IsSource(n) ==
    /\ n \in GraphNodes(pipe.graph)
    /\ MandatorySockets(pipe.graph, n) = {}
    /\ in_edges(pipe.graph, n) = {}

C32_SourceRunsAtOnce ==
    /\ [][\A r \in Runs :
            (step'[r] = step[r] + 1 /\ IsSource(component_name(r))) =>
                /\ execLog[r] = << >> \/ component_name(r) \notin Executed(r)
                /\ execLog'[r] = Append(execLog[r], component_name(r))
                /\ last'[r].action = "run"
                /\ skipLog'[r] = skipLog[r]
                /\ component_name(r) \notin BufferNames(inputs_buffer'[r])]_vars
    /\ [](\A r \in Runs : \A n \in Nodes : IsSource(n) =>
            /\ \A i \in DOMAIN skipLog[r] : skipLog[r][i] # n
            /\ Count(execLog[r], n) <= 1
            /\ (pc[r] = "returned" /\ \E i \in DOMAIN call[r].data : call[r].data[i].name = n)
                    => Count(execLog[r], n) = 1)

C32_Witness ==
    /\ pipe.graph = "source"
    /\ call[1].data = << Item("C", Fields(Absent, Absent, 1)), Item("S", EmptyInputs) >>
    /\ step[1] = 2
    /\ last[1] = Decision("run", "S", EmptyInputs)
    /\ execLog[1] = << "S" >>
    /\ visits["S"] = 1

\* C33 as stated: whatever exception the executed snippet raises, run
\* returns its message as 'output' on the edge 'output_1'; None, an empty
\* context, or an input that is neither a string nor a list gives ValueError
\* with nothing executed.
Ran == runtime_result # NoResult
\* The source text that the call executes, when it executes one.
Executes(ctx) ==
    /\ ~IsFalsy(ctx)
    /\ ctx.input.kind \in {"absent", "str"} \/ (ctx.input.kind = "list" /\ ctx.input.items # << >>)
SourceOf(ctx) ==
    CASE ctx.input.kind = "str" -> ctx.input.text
      [] ctx.input.kind = "list" -> ctx.input.items[1]
      [] OTHER -> EmptySnippet
Refused(ctx) == IsFalsy(ctx) \/ ctx.input.kind \notin {"absent", "str", "list"}

C33_RefusedWithValueError ==
    (Ran /\ Refused(invocation_context)) => runtime_result = RuntimeRaised("ValueError", FALSE)

C33_NeverPropagates ==
    /\ (Ran /\ Executes(invocation_context) /\ SourceOf(invocation_context).raises # NoRaise) =>
            runtime_result = RuntimeReturned(SourceOf(invocation_context).raises.message)
    /\ C33_RefusedWithValueError

\* C33, amended: an exception of a class derived from Exception that the
\* snippet raises does not leave run, its message is the 'output' on the edge
\* 'output_1'; SystemExit, KeyboardInterrupt and the like leave run as they
\* are; the refusals with ValueError are as stated.
C33_ExceptionsBecomeOutput ==
    /\ (Ran /\ Executes(invocation_context) /\ SourceOf(invocation_context).raises # NoRaise) =>
            IF IsException(SourceOf(invocation_context).raises.type)
            THEN runtime_result = RuntimeReturned(SourceOf(invocation_context).raises.message)
            ELSE runtime_result = RuntimeRaised(SourceOf(invocation_context).raises.type, TRUE)
    /\ C33_RefusedWithValueError

C33_Witness ==
    /\ invocation_context =
            [given |-> TRUE, other |-> FALSE,
             input |-> [kind |-> "list",
                        items |-> << [final_result |-> "8.0",
                                      raises |-> Raise("ZeroDivisionError", "division by zero")] >>]]
    /\ runtime_result = RuntimeReturned("division by zero")

\* C34: every 'run' action invokes the capability of the node once: at any
\* time a node was invoked as often as it was handed to _arun_component, and
\* when the run has returned that is its visit count less its skips, with
\* plain and with coroutine components alike.
C34_InvokedOncePerRun ==
    \A r \in caller.runs : \A n \in Nodes :
        /\ pc[r] # "awaiting" => Count(invocations[r], n) = Count(execLog[r], n)
        /\ pc[r] = "returned" => Count(invocations[r], n) = visits[n] - Count(skipLog[r], n)

\* C35 as stated: the loop-limit error is raised for a popped node only when
\* the action of that node would be 'run'.
WouldBe(r) == _calculate_action(pipe.graph, visits, last[r].name, last[r].inputs)

C35_GuardOnlyBeforeRun ==
    \A r \in caller.runs : last[r].action = "raise" => WouldBe(r) = "run"

\* C35, amended: the loop guard comes before the action is computed: the pop
\* of a node whose visit counter has reached the maximum ends the run with
\* the loop-limit error whatever its action would be, nothing is executed or
\* counted by that step, and the error is raised for no other node.
C35_GuardBeforeAction ==
    /\ [](\A r \in caller.runs : last[r].action = "raise" =>
            /\ pc[r] = "failed"
            /\ result[r].error.type = "PipelineMaxLoops"
            /\ result[r].error.node = last[r].name
            /\ _check_max_loops(visits, last[r].name))
    /\ [][\A r \in caller.runs :
            (step'[r] = step[r] + 1 /\ _check_max_loops(visits, component_name(r))) =>
                /\ last'[r] = Decision("raise", component_name(r), inputs(r))
                /\ pc'[r] = "failed"
                /\ visits' = visits
                /\ execLog' = execLog
                /\ skipLog' = skipLog]_vars

C35_Witness ==
    /\ pipe.graph = "loopout"
    /\ Healthy
    /\ last[1] = Decision("raise", "L", EmptyInputs)
    /\ WouldBe(1) = "skip"
    /\ pc[1] = "failed"
    /\ result[1].error.type = "PipelineMaxLoops"
    /\ Count(execLog[1], "L") = visits["L"]

\* C36: with debug requested in gathered runs, the trace a run returns holds
\* the steps of that run, one snapshot for each of its steps 1..n+1 and the
\* last one with the empty buffer and the output of that run, and the start
\* of a run leaves the snapshots recorded so far in place.
C36_OwnTrace ==
    /\ [](\A r \in caller.runs : (pc[r] = "returned" /\ call[r].debug) =>
            /\ {d.step : d \in result[r].debug} = 1..(step[r] + 1)
            /\ Cardinality(result[r].debug) = step[r] + 1
            /\ Snapshot(step[r] + 1, << >>, result[r].output) \in result[r].debug)
    /\ [][\A r, q \in caller.runs :
            (pc[r] = "idle" /\ pc'[r] = "loop" /\ pc[q] = "awaiting" /\ call[q].debug) =>
                debug \subseteq debug']_vars

\* C37: while a run is under way, and when it ends, the visit counter of
\* every node is the number of times this run handed the node to
\* _arun_component, the executions that raised included, plus the number of
\* times it skipped the node; no counter exceeds the maximum; a 'wait' or a
\* 'remove' step changes no counter.
C37_VisitsAccounted ==
    /\ [](\A r \in caller.runs : \A n \in Nodes :
            /\ pc[r] \in {"loop", "awaiting"} => visits[n] = OwnVisits(r, n)
            /\ visits[n] <= MaxLoopsAllowed)
    /\ [][\A r \in caller.runs : \A n \in Nodes :
            (pc[r] \in {"loop", "awaiting"} /\ pc'[r] \in {"returned", "failed"}) =>
                visits'[n] = Count(execLog'[r], n) + Count(skipLog'[r], n)]_vars
    /\ [][\A r \in caller.runs : (Wait(r) \/ Remove(r)) => visits' = visits]_vars

C37_Witness ==
    /\ pipe.graph = "loopout"
    /\ pipe.faulty = "T"
    /\ pc[1] = "failed"
    /\ pc[2] = "failed"
    /\ result[2].error.type = "PipelineRuntimeError"
    /\ visits["T"] = 1
    /\ visits["L"] = 1
    /\ execLog[2] = << "L", "T" >>

C37_WitnessSkipped ==
    /\ pipe.graph = "branch"
    /\ pc[2] = "loop"
    /\ pc[1] = "returned"
    /\ skipLog[2] = << "Y" >>
    /\ visits["Y"] = 1
    /\ visits["R"] = 1
    /\ visits["X"] = Count(execLog[2], "X")
    /\ visits["Y2"] = 0

\* The characters of the last non-empty line that the result leaves out.
CutAway == SubSeq(LastLine, 1, Len(LastLine) - Len(parsed.action_input))
\* The returned answer closes the last non-empty line.
ClosesLine ==
    /\ Len(parsed.action_input) <= Len(LastLine)
    /\ SliceFrom(LastLine, Len(LastLine) - Len(parsed.action_input)) = parsed.action_input

\* C38 (as stated): when the last non-empty line begins with "Final Answer"
\* the text parses to the final-answer marker, whatever the lines before it
\* hold, and the returned answer is that line without the prefix
\* "Final Answer: ": only characters of the prefix are left out; when the last
\* non-empty line does not begin with "Final Answer" the result is never the
\* final-answer marker, wherever else such a line stands.
C38_FinalAnswerLast ==
    apc = "parsed" /\ NonEmpty # {} =>
        /\ startswith(LastLine, FinalAnswer) =>
                /\ parsed.raises = "none"
                /\ parsed.action = FinalAnswer
                /\ ClosesLine
                /\ startswith(FINAL_ANSWER_ACTION, CutAway)
        /\ ~startswith(LastLine, FinalAnswer) => parsed.action # FinalAnswer

\* C38, the part lines 263-266 keep: a last non-empty line that begins with
\* the whole prefix "Final Answer: " gives the marker and the text behind the
\* prefix, an Action / Action Input pair and empty lines around it
\* notwithstanding; a final-answer line that is not last gives no marker.
C38_PrefixedAnswerKept ==
    apc = "parsed" /\ NonEmpty # {} =>
        /\ startswith(LastLine, FINAL_ANSWER_ACTION) =>
                parsed = ParsePair(FinalAnswer, SliceFrom(LastLine, Len(FINAL_ANSWER_ACTION)))
        /\ ~startswith(LastLine, FinalAnswer) => parsed.action # FinalAnswer

\* C38: an answer behind "Final Answer:" without the blank loses its first
\* character, after an Action / Action Input pair.
C38_CharacterLost ==
    /\ apc = "parsed"
    /\ Written = << ActionPrefix \o Search, ActionInputPrefix \o << "8" >>, FinalAnswer \o << ":","4","2" >> >>
    /\ parsed = ParsePair(FinalAnswer, << "2" >>)

\* C38: a final-answer line followed by an Action / Action Input pair parses
\* to the action.
C38_NotLast ==
    /\ apc = "parsed"
    /\ Written = << FINAL_ANSWER_ACTION \o << "4","2" >>, ActionPrefix \o Search, ActionInputPrefix \o << "8" >> >>
    /\ parsed = ParsePair(Search, << "8" >>)

====
